---------------------------- MODULE Spec2Model ----------------------------
(***************************************************************************)
(* A model of libavcodec/decode.c: the generic decode driver               *)
(* (avcodec_send_packet / avcodec_receive_frame / avcodec_flush_buffers /  *)
(* compat_decode), the bitstream-filter chain it pulls packets from, the   *)
(* parameter-change side data parser and the cropping post-processor.      *)
(*                                                                         *)
(* A handler that calls an external collaborator (the codec's decode or    *)
(* receive_frame entry point, ff_thread_decode_frame) has several possible *)
(* results.  Every handler is therefore an operator from the state before  *)
(* the call to the SET of outcomes [s, ret, frame] the call can have, and  *)
(* an action picks one outcome of the whole handler.                       *)
(***************************************************************************)
EXTENDS Integers, Sequences, FiniteSets, TLC

(***************************************************************************)
(* Error codes and C limits.                                               *)
(***************************************************************************)
AVERROR_EAGAIN      == -11
AVERROR_EINVAL      == -22
AVERROR_ENOMEM      == -12
AVERROR_EOF         == -541478725
AVERROR_INVALIDDATA == -1094995529
AVERROR_BUG         == -558323010
\* the error a backend reports from decode / receive_frame: any negative
\* code that is neither EAGAIN nor EOF; the model uses EIO
AVERROR_EIO         == -5
INT_MAX             == 2147483647

(***************************************************************************)
(* Bounds of the model.                                                    *)
(***************************************************************************)
\* data packets the application submits over a run
MaxPkts    == 2
\* largest packet payload, in bytes
MaxPktSize == 2
\* frames the backend emits over a run
MaxFrames  == 2
\* frames a backend with delayed output holds back at a time
MaxHeld    == 1
\* decode errors the backend raises over a run
MaxErrs    == 1

Min(a, b) == IF a < b THEN a ELSE b

(***************************************************************************)
(* Packets.  size = 0 stands for data == NULL; sd is the PARAM_CHANGE side *)
(* data payload as a sequence of bytes (<<>>: no such side data); ts is    *)
(* TRUE while pts/dts hold a value and FALSE for AV_NOPTS_VALUE.           *)
(***************************************************************************)
NoPkt == [size |-> 0, sd |-> <<>>, ts |-> FALSE]

Pkt(n, sd) == [size |-> n, sd |-> sd, ts |-> TRUE]

\* av_packet_copy_props: everything but the payload
PktProps(p) == [size |-> 0, sd |-> p.sd, ts |-> p.ts]

(***************************************************************************)
(* bytestream_get_le32 / bytestream_get_le64 on the first n bytes of b.    *)
(***************************************************************************)
RECURSIVE LE(_, _)
LE(b, n) == IF n = 0 THEN 0 ELSE b[1] + 256 * LE(Tail(b), n - 1)

Drop(b, n) == SubSeq(b, n + 1, Len(b))

HasBit(flags, bit) == (flags \div bit) % 2 = 1

AV_SIDE_DATA_PARAM_CHANGE_CHANNEL_COUNT  == 1
AV_SIDE_DATA_PARAM_CHANGE_CHANNEL_LAYOUT == 2
AV_SIDE_DATA_PARAM_CHANGE_SAMPLE_RATE    == 4
AV_SIDE_DATA_PARAM_CHANGE_DIMENSIONS     == 8


(***************************************************************************)
(* The state.  Operators below work on a record s holding the fields of    *)
(* AVCodecContext and AVCodecInternal (St, further down, builds it from   *)
(* the variables):                                                         *)
(*   cfg                  what is fixed when the decoder is opened         *)
(*   draining, draining_done, buffer_pkt, buffer_frame, in_pkt (ds.in_pkt),*)
(*   last_pkt_props, compat_decode_frame, to_free, compat_decode,          *)
(*   compat_decode_warned, compat_decode_consumed,                         *)
(*   compat_decode_partial_size, bsfs (filter.bsfs; nb_bsfs = Len),        *)
(*   frame_number, channels, channel_layout, sample_rate, width, height,   *)
(*   codec (the backend's private state), aborted (an av_assert0 failed),  *)
(*   hist (what the backend was handed and what it emitted: not program    *)
(*   state, kept for the properties).                                      *)
(***************************************************************************)

(***************************************************************************)
(* ff_set_dimensions (utils.c): the size check, then the assignment; an    *)
(* invalid size zeroes both dimensions and is an error.                    *)
(***************************************************************************)
ff_set_dimensions(s, w, h) ==
    IF w > 0 /\ h > 0
    THEN [s |-> [s EXCEPT !.width = w, !.height = h], ret |-> 0]
    ELSE [s |-> [s EXCEPT !.width = 0, !.height = 0], ret |-> AVERROR_EINVAL]

\* the label fail2 returning the error whatever err_recognition is
pc_fail2_strict(s, ret) == [s |-> s, ret |-> IF ret < 0 THEN ret ELSE 0]

\* the labels fail2 and fail of apply_param_change
pc_fail2(s, ret) ==
    [s |-> s, ret |-> IF ret < 0 /\ s.cfg.explode THEN ret ELSE 0]

pc_fail(s) == pc_fail2(s, AVERROR_INVALIDDATA)

\* one "if (flags & X) { if (size < n) goto fail; field = get(); size -= n; }"
\* st = [s, d, failed]: the context, the unread bytes, whether fail was taken
pc_field(st, on, n, Set(_, _)) ==
    IF st.failed \/ ~on THEN st
    ELSE IF Len(st.d) < n THEN [st EXCEPT !.failed = TRUE]
    ELSE [s |-> Set(st.s, st.d), d |-> Drop(st.d, n), failed |-> FALSE]

pc_set_channels(s, d)       == [s EXCEPT !.channels = LE(d, 4)]

pc_set_channel_layout(s, d) == [s EXCEPT !.channel_layout = LE(d, 8)]

pc_set_sample_rate(s, d)    == [s EXCEPT !.sample_rate = LE(d, 4)]

pc_set_dimensions(s, d)     ==
    [s EXCEPT !.width = LE(d, 4), !.height = LE(Drop(d, 4), 4)]

\* after "ret = ff_set_dimensions(...)": r is its result
pc_dims_set(r) ==
    IF r.ret < 0 THEN pc_fail2(r.s, r.ret) ELSE [s |-> r.s, ret |-> 0]

\* after the four fields were read: st is where the reading stopped
pc_parsed(st, dims) ==
    IF st.failed THEN pc_fail(st.s)
    ELSE IF dims
    THEN pc_dims_set(ff_set_dimensions(st.s, st.s.width, st.s.height))
    ELSE [s |-> st.s, ret |-> 0]

\* after "flags = bytestream_get_le32(&data)": d is what follows the flags
pc_parse(s, d, flags) ==
    pc_parsed(
      pc_field(
        pc_field(
          pc_field(
            pc_field([s |-> s, d |-> d, failed |-> FALSE],
                     HasBit(flags, AV_SIDE_DATA_PARAM_CHANGE_CHANNEL_COUNT),
                     4, pc_set_channels),
            HasBit(flags, AV_SIDE_DATA_PARAM_CHANGE_CHANNEL_LAYOUT),
            8, pc_set_channel_layout),
          HasBit(flags, AV_SIDE_DATA_PARAM_CHANGE_SAMPLE_RATE),
          4, pc_set_sample_rate),
        HasBit(flags, AV_SIDE_DATA_PARAM_CHANGE_DIMENSIONS),
        8, pc_set_dimensions),
      HasBit(flags, AV_SIDE_DATA_PARAM_CHANGE_DIMENSIONS))

\* apply_param_change without the test of AV_CODEC_CAP_PARAM_CHANGE
apply_param_change_any_codec(s, pkt) ==
    IF pkt.sd = <<>> THEN [s |-> s, ret |-> 0]
    ELSE IF Len(pkt.sd) < 4 THEN pc_fail(s)
    ELSE pc_parse(s, Drop(pkt.sd, 4), LE(pkt.sd, 4))

\* apply_param_change: [s, ret]
apply_param_change(s, pkt) ==
    IF pkt.sd = <<>> THEN [s |-> s, ret |-> 0]
    ELSE IF ~s.cfg.param_change THEN pc_fail2(s, AVERROR_EINVAL)
    ELSE IF Len(pkt.sd) < 4 THEN pc_fail(s)
    ELSE pc_parse(s, Drop(pkt.sd, 4), LE(pkt.sd, 4))

extract_packet_props(s, pkt) == [s EXCEPT !.last_pkt_props = PktProps(pkt)]

(***************************************************************************)
(* One bitstream filter (bsf.c): the packet av_bsf_send_packet left for    *)
(* it (buf), an end-of-stream flag, and the packets the filter itself      *)
(* holds back (held) and has yet to emit (out).  The filter "null" passes  *)
(* each packet on; the filter "pair" holds a packet back until it has a    *)
(* second one, emits both, and emits what it holds at the end of stream.   *)
(***************************************************************************)
NewBsf ==
    [name |-> "null", buf |-> NoPkt, eof |-> FALSE, held |-> <<>>, out |-> <<>>]

PktEmpty(p) == p.size = 0 /\ p.sd = <<>>

\* av_bsf_send_packet: [f, ret, pkt], pkt being the caller's packet
\* afterwards (moved from on success); the end marker is the packet that
\* holds nothing, a packet with side data alone is a packet
av_bsf_send_packet(f, pkt) ==
    IF PktEmpty(pkt) THEN [f |-> [f EXCEPT !.eof = TRUE], ret |-> 0, pkt |-> pkt]
    ELSE IF f.eof THEN [f |-> f, ret |-> AVERROR_EINVAL, pkt |-> pkt]
    ELSE IF ~PktEmpty(f.buf) THEN [f |-> f, ret |-> AVERROR_EAGAIN, pkt |-> pkt]
    ELSE [f |-> [f EXCEPT !.buf = pkt], ret |-> 0, pkt |-> NoPkt]

\* av_bsf_receive_packet of the filter "pair": held is the packet it holds
\* back, out the packet it has yet to emit
pair_filter(f, pkt) ==
    IF Len(f.out) > 0
    THEN [f |-> [f EXCEPT !.out = Tail(@)], ret |-> 0, pkt |-> Head(f.out)]
    ELSE IF ~PktEmpty(f.buf)
    THEN IF Len(f.held) > 0
         THEN [f |-> [f EXCEPT !.out = <<f.buf>>, !.held = <<>>, !.buf = NoPkt],
               ret |-> 0, pkt |-> Head(f.held)]
         ELSE [f |-> [f EXCEPT !.held = <<f.buf>>, !.buf = NoPkt],
               ret |-> AVERROR_EAGAIN, pkt |-> pkt]
    ELSE IF f.eof /\ Len(f.held) > 0
    THEN [f |-> [f EXCEPT !.held = <<>>], ret |-> 0, pkt |-> Head(f.held)]
    ELSE IF f.eof THEN [f |-> f, ret |-> AVERROR_EOF, pkt |-> pkt]
    ELSE [f |-> f, ret |-> AVERROR_EAGAIN, pkt |-> pkt]

\* av_bsf_receive_packet: [f, ret, pkt]
av_bsf_receive_packet(f, pkt) ==
    IF f.name = "pair" THEN pair_filter(f, pkt)
    ELSE IF ~PktEmpty(f.buf)
    THEN [f |-> [f EXCEPT !.buf = NoPkt], ret |-> 0, pkt |-> f.buf]
    ELSE IF f.eof THEN [f |-> f, ret |-> AVERROR_EOF, pkt |-> pkt]
    ELSE [f |-> f, ret |-> AVERROR_EAGAIN, pkt |-> pkt]

ff_decode_bsfs_uninit(s) == [s EXCEPT !.bsfs = <<>>]

\* the filter specification of the codec, a string: the sequence of its
\* names and of the commas between them; an absent one stands for "null"
BsfsStr(cfg) == IF cfg.has_bsfs THEN cfg.bsfs ELSE <<"null">>

\* av_get_token(&bsfs_str, ","): the token up to the next comma or the end,
\* and the string left, which starts at the comma: the terminator is not
\* consumed
av_get_token(str) ==
    IF str[1] = "," THEN [tok |-> "", rest |-> str]
    ELSE [tok |-> str[1], rest |-> Tail(str)]

\* the names av_bsf_get_by_name knows
KnownBsfs == {"null", "pair"}

\* what bsfs_init did in the call (history): whether it ran, what it
\* returned and, when it failed, at which filter and which step
NoInit == [ran |-> FALSE, ret |-> 0, k |-> 0, step |-> "none"]

\* the steps of bsfs_init for one filter that can fail, in order, and the
\* errors each can end with: av_get_token, av_realloc_array, av_bsf_alloc
\* and the copy of the parameters fail for want of memory, av_bsf_init with
\* an error of the filter, av_bsf_get_by_name when it does not know the name
BsfSteps == <<"token", "name", "array", "alloc", "params", "init">>

BsfStepErrors(c, name, step) ==
    IF step = "name"
    THEN IF name \in KnownBsfs THEN {} ELSE {AVERROR_BUG}
    ELSE IF ~c.bsf_fails THEN {}
    ELSE IF step = "init" THEN {AVERROR_EINVAL} ELSE {AVERROR_ENOMEM}

\* the chain when the step i of the filter after s.bsfs fails: the steps
\* after "s->nb_bsfs++" find the new slot counted
BsfsAtStep(s, i) ==
    IF i <= 3 THEN s ELSE [s EXCEPT !.bsfs = Append(@, NewBsf)]

\* the label fail of bsfs_init leaving the chain as it is
bsfs_fail_keep(s, ret, k, step) ==
    [s |-> [s EXCEPT !.hist.init = [ran |-> TRUE, ret |-> ret, k |-> k,
                                    step |-> step]],
     ret |-> ret]

\* the label fail of bsfs_init
bsfs_fail(s, ret, k, step) ==
    [s |-> [ff_decode_bsfs_uninit(s) EXCEPT
              !.hist.init = [ran |-> TRUE, ret |-> ret, k |-> k, step |-> step]],
     ret |-> ret]

\* "while (bsfs_str && *bsfs_str)" from the filter k on, str being what
\* is left of the specification: the set of [s, ret]
RECURSIVE bsfs_build(_, _, _)

\* one turn of the loop, t being what av_get_token returned: a step that
\* can fail ends the loop there, and a name that is not known never gets
\* beyond av_bsf_get_by_name
bsfs_build_token(s, t, k) ==
    UNION { { bsfs_fail(BsfsAtStep(s, i), e, k, BsfSteps[i])
              : e \in BsfStepErrors(s.cfg, t.tok, BsfSteps[i]) }
            : i \in IF t.tok \in KnownBsfs THEN 1..Len(BsfSteps) ELSE 1..2 }
    \cup ( IF t.tok \in KnownBsfs
           THEN bsfs_build([s EXCEPT !.bsfs = Append(@, [NewBsf EXCEPT
                                                           !.name = t.tok])],
                           t.rest, k + 1)
           ELSE {} )

bsfs_build(s, str, k) ==
    IF str = <<>>
    THEN {[s |-> [s EXCEPT !.hist.init = [NoInit EXCEPT !.ran = TRUE]],
           ret |-> 0]}
    ELSE bsfs_build_token(s, av_get_token(str), k)

\* bsfs_init: the set of [s, ret]
bsfs_init(s) ==
    IF Len(s.bsfs) > 0
    THEN {[s |-> [s EXCEPT !.hist.init = [NoInit EXCEPT !.ran = TRUE]],
           ret |-> 0]}
    ELSE bsfs_build(s, BsfsStr(s.cfg), 1)

\* the loop of bsfs_poll; idx counts from 1 here, from 0 in the source
RECURSIVE bsfs_poll_from(_, _, _)

\* after "ret = av_bsf_send_packet(s->bsfs[idx + 1], ret < 0 ? NULL : pkt)":
\* r is what the filter idx returned, q what the filter idx + 1 answered
bsfs_poll_sent(s, idx, r, q) ==
    IF q.ret < 0
    THEN [s |-> [s EXCEPT !.bsfs[idx + 1] = q.f], ret |-> q.ret, pkt |-> NoPkt]
    ELSE bsfs_poll_from([s EXCEPT !.bsfs[idx + 1] = q.f], idx + 1,
                        IF r.ret < 0 THEN r.pkt ELSE q.pkt)

\* bsfs_poll dropping what the last filter has yet to emit when it
\* returns one of its packets
bsfs_poll_received_drop(s, idx, r) ==
    IF r.ret = AVERROR_EAGAIN
    THEN bsfs_poll_from([s EXCEPT !.bsfs[idx] = r.f], idx - 1, r.pkt)
    ELSE IF (r.ret < 0 /\ r.ret # AVERROR_EOF) \/ idx = Len(s.bsfs)
    THEN [s |-> [s EXCEPT !.bsfs[idx] = [r.f EXCEPT !.out = <<>>]],
          ret |-> r.ret, pkt |-> r.pkt]
    ELSE bsfs_poll_sent([s EXCEPT !.bsfs[idx] = r.f], idx, r,
                        av_bsf_send_packet(s.bsfs[idx + 1],
                                           IF r.ret < 0 THEN NoPkt ELSE r.pkt))

\* after "ret = av_bsf_receive_packet(s->bsfs[idx], pkt)"
bsfs_poll_received(s, idx, r) ==
    IF r.ret = AVERROR_EAGAIN
    THEN bsfs_poll_from([s EXCEPT !.bsfs[idx] = r.f], idx - 1, r.pkt)
    ELSE IF (r.ret < 0 /\ r.ret # AVERROR_EOF) \/ idx = Len(s.bsfs)
    THEN [s |-> [s EXCEPT !.bsfs[idx] = r.f], ret |-> r.ret, pkt |-> r.pkt]
    ELSE bsfs_poll_sent([s EXCEPT !.bsfs[idx] = r.f], idx, r,
                        av_bsf_send_packet(s.bsfs[idx + 1],
                                           IF r.ret < 0 THEN NoPkt ELSE r.pkt))

bsfs_poll_from(s, idx, pkt) ==
    IF idx < 1 THEN [s |-> s, ret |-> AVERROR_EAGAIN, pkt |-> pkt]
    ELSE bsfs_poll_received(s, idx, av_bsf_receive_packet(s.bsfs[idx], pkt))

bsfs_poll(s, pkt) == bsfs_poll_from(s, Len(s.bsfs), pkt)

\* the decoder parameters a PARAM_CHANGE payload can set
Params(s) == <<s.channels, s.channel_layout, s.sample_rate, s.width, s.height>>

NoFetch == [sd |-> <<>>, ret |-> 0, before |-> <<>>, after |-> <<>>]

\* the PARAM_CHANGE payload of the packet the chain delivered last, what
\* ff_decode_get_packet returned for it, and the decoder parameters before
\* and after (history)
NoteFetch(s, pkt, ret, before) ==
    IF pkt.sd = <<>> THEN s
    ELSE [s EXCEPT !.hist.fetch = [sd |-> pkt.sd, ret |-> ret,
                                   before |-> before, after |-> Params(s)]]

\* after "ret = apply_param_change(avctx, pkt)": pc is its result
get_packet_changed(pkt, before, pc) ==
    IF pc.ret < 0
    THEN [s |-> NoteFetch(pc.s, pkt, pc.ret, before), ret |-> pc.ret,
          pkt |-> NoPkt]
    ELSE [s |-> IF pc.s.cfg.shape = "direct"
                THEN [NoteFetch(pc.s, pkt, 0, before)
                        EXCEPT !.compat_decode_consumed = @ + pkt.size,
                               !.hist.consumed = @ + pkt.size]
                ELSE NoteFetch(pc.s, pkt, 0, before),
          ret |-> 0, pkt |-> pkt]

\* get_packet_polled taking every failure of bsfs_poll for the end of the
\* stream
get_packet_polled_any(r) ==
    IF r.ret < 0
    THEN [s |-> [r.s EXCEPT !.draining = TRUE], ret |-> r.ret, pkt |-> r.pkt]
    ELSE get_packet_changed(r.pkt, Params(r.s),
             apply_param_change(
                 extract_packet_props([r.s EXCEPT !.hist.pulled = Append(@, r.pkt)],
                                      r.pkt),
                 r.pkt))

\* after "ret = bsfs_poll(avctx, pkt)": r is its result
get_packet_polled(r) ==
    IF r.ret = AVERROR_EOF
    THEN [s |-> [r.s EXCEPT !.draining = TRUE], ret |-> r.ret, pkt |-> r.pkt]
    ELSE IF r.ret < 0 THEN r
    ELSE get_packet_changed(r.pkt, Params(r.s),
             apply_param_change(
                 extract_packet_props([r.s EXCEPT !.hist.pulled = Append(@, r.pkt)],
                                      r.pkt),
                 r.pkt))

\* ff_decode_get_packet: [s, ret, pkt]
ff_decode_get_packet(s, pkt) ==
    IF s.draining THEN [s |-> s, ret |-> AVERROR_EOF, pkt |-> pkt]
    ELSE get_packet_polled(bsfs_poll(s, pkt))

(***************************************************************************)
(* size_t (64 bits) as four 16-bit limbs, least significant first: the     *)
(* crop margins, the plane offsets and the plane pointers are size_t or    *)
(* pointers, and their arithmetic wraps at 2^64.                           *)
(***************************************************************************)
LIMB == 65536

\* (size_t)n for an int n: a negative int is sign-extended
SzOf(n) ==
    <<n % LIMB, (n \div LIMB) % LIMB,
      IF n < 0 THEN LIMB - 1 ELSE 0, IF n < 0 THEN LIMB - 1 ELSE 0>>

SzZero == SzOf(0)

\* limb i of a + b + c, c the carry into limb 1
RECURSIVE SzCarry(_, _, _, _)
SzCarry(a, b, c, i) ==
    IF i = 1 THEN c ELSE (a[i - 1] + b[i - 1] + SzCarry(a, b, c, i - 1)) \div LIMB

SzAddC(a, b, c) == [i \in 1..4 |-> (a[i] + b[i] + SzCarry(a, b, c, i)) % LIMB]

SzAdd(a, b) == SzAddC(a, b, 0)

SzNot(a) == [i \in 1..4 |-> LIMB - 1 - a[i]]

SzSub(a, b) == SzAddC(a, SzNot(b), 1)

\* a >= b, unsigned
SzGeq(a, b) ==
    \/ a = b
    \/ \E i \in 1..4 : a[i] > b[i] /\ \A j \in (i + 1)..4 : a[j] = b[j]

\* a >> k for k in 0..15
SzShr(a, k) ==
    [i \in 1..4 |-> (a[i] \div (2 ^ k)) +
                    (IF i < 4 THEN (a[i + 1] % (2 ^ k)) * (LIMB \div (2 ^ k)) ELSE 0)]

\* a * m for a small non-negative int m
RECURSIVE SzMulCarry(_, _, _)
SzMulCarry(a, m, i) ==
    IF i = 1 THEN 0 ELSE (a[i - 1] * m + SzMulCarry(a, m, i - 1)) \div LIMB

SzMul(a, m) == [i \in 1..4 |-> (a[i] * m + SzMulCarry(a, m, i)) % LIMB]

\* (int)a: the low 32 bits, as two's complement
SzToInt(a) ==
    (IF a[2] >= LIMB \div 2 THEN a[2] - LIMB ELSE a[2]) * LIMB + a[1]

\* a & ~((1 << k) - 1) for k in 0..15
SzClearLow(a, k) == [a EXCEPT ![1] = @ - (@ % (2 ^ k))]

(***************************************************************************)
(* Frames.  buf0 is buf[0] != NULL; id names the frame (0: none); the crop *)
(* margins are size_t; data and linesize are the first four plane pointers *)
(* (SzZero for NULL) and strides.                                          *)
(***************************************************************************)
NoFrame ==
    [buf0 |-> FALSE, id |-> 0, width |-> 0, height |-> 0,
     crop_left |-> SzZero, crop_right |-> SzZero,
     crop_top |-> SzZero, crop_bottom |-> SzZero,
     format |-> "NONE", data |-> <<SzZero, SzZero, SzZero, SzZero>>,
     linesize |-> <<0, 0, 0, 0>>]

(***************************************************************************)
(* av_pix_fmt_desc_get (pixdesc.c), for the formats the model uses: flags, *)
(* chroma shifts and, per component, its plane (from 0) and its step.  A   *)
(* format without a descriptor (NULL) carries the flag NODESC.             *)
(***************************************************************************)
av_pix_fmt_desc_get(fmt) ==
    CASE fmt = "YUV420P" ->
           [flags |-> {}, log2_chroma_w |-> 1, log2_chroma_h |-> 1,
            comp |-> <<[plane |-> 0, step |-> 1], [plane |-> 1, step |-> 1],
                       [plane |-> 2, step |-> 1]>>]
      [] fmt = "RGB24" ->
           [flags |-> {}, log2_chroma_w |-> 0, log2_chroma_h |-> 0,
            comp |-> <<[plane |-> 0, step |-> 3], [plane |-> 0, step |-> 3],
                       [plane |-> 0, step |-> 3]>>]
      [] fmt = "PAL8" ->
           [flags |-> {"PAL"}, log2_chroma_w |-> 0, log2_chroma_h |-> 0,
            comp |-> <<[plane |-> 0, step |-> 1]>>]
      [] fmt \in {"VDPAU", "VAAPI"} ->
           [flags |-> {"HWACCEL"}, log2_chroma_w |-> 1, log2_chroma_h |-> 1,
            comp |-> <<>>]
      [] OTHER -> [flags |-> {"NODESC"}, log2_chroma_w |-> 0, log2_chroma_h |-> 0,
                   comp |-> <<>>]

\* av_ctz of a non-zero int
RECURSIVE av_ctz(_)
av_ctz(n) == IF n % 2 = 1 THEN 0 ELSE 1 + av_ctz(n \div 2)

\* the planes the loops "for (i = 0; frame->data[i]; i++)" visit, from 1
RECURSIVE PlanesFrom(_, _)
PlanesFrom(data, i) ==
    IF i > Len(data) \/ data[i] = SzZero THEN {}
    ELSE {i} \cup PlanesFrom(data, i + 1)

Planes(frame) == PlanesFrom(frame.data, 1)

\* offsets[i] of calc_cropping_offsets for plane i (from 1, where the source
\* counts from 0); the loop stops at the palette plane, whose offset is 0
CropOffset(frame, desc, i, comps) ==
    IF (desc.flags \cap {"PAL", "PSEUDOPAL"}) # {} /\ i >= 2 THEN SzZero
    ELSE IF comps = {} THEN SzZero
    ELSE SzAdd(SzMul(SzShr(frame.crop_top,
                           IF i \in {2, 3} THEN desc.log2_chroma_h ELSE 0),
                     frame.linesize[i]),
               SzMul(SzShr(frame.crop_left,
                           IF i \in {2, 3} THEN desc.log2_chroma_w ELSE 0),
                     desc.comp[CHOOSE j \in comps : \A k \in comps : j <= k].step))

calc_cropping_offsets(frame, desc) ==
    [i \in 1..4 |->
       IF i \in Planes(frame)
       THEN CropOffset(frame, desc, i,
                       {j \in 1..Len(desc.comp) : desc.comp[j].plane = i - 1})
       ELSE SzZero]

\* the smallest "offsets[i] ? av_ctz(offsets[i]) : INT_MAX" over the planes
MinLog2Align(frame, offsets) ==
    IF \A i \in Planes(frame) : offsets[i] = SzZero THEN INT_MAX
    ELSE CHOOSE m \in {av_ctz(SzToInt(offsets[i])) :
                         i \in {j \in Planes(frame) : offsets[j] # SzZero}} :
           \A i \in Planes(frame) :
              offsets[i] # SzZero => m <= av_ctz(SzToInt(offsets[i]))

ZeroCrop(frame) ==
    [frame EXCEPT !.crop_left = SzZero, !.crop_right = SzZero,
                  !.crop_top = SzZero, !.crop_bottom = SzZero]

\* the test at the head of apply_cropping, in size_t arithmetic
InvalidCropping(frame) ==
    \/ SzGeq(frame.crop_left, SzSub(SzOf(INT_MAX), frame.crop_right))
    \/ SzGeq(frame.crop_top, SzSub(SzOf(INT_MAX), frame.crop_bottom))
    \/ SzGeq(SzAdd(frame.crop_left, frame.crop_right), SzOf(frame.width))
    \/ SzGeq(SzAdd(frame.crop_top, frame.crop_bottom), SzOf(frame.height))

\* the tail of apply_cropping: the pointers advance, the size shrinks
crop_apply(frame, offsets) ==
    [ret |-> 0,
     frame |-> ZeroCrop(
        [frame EXCEPT
           !.data = [i \in 1..4 |-> IF i \in Planes(frame)
                                    THEN SzAdd(frame.data[i], offsets[i])
                                    ELSE frame.data[i]],
           !.width = SzToInt(SzSub(SzOf(@),
                                   SzAdd(frame.crop_left, frame.crop_right))),
           !.height = SzToInt(SzSub(SzOf(@),
                                    SzAdd(frame.crop_top, frame.crop_bottom)))])]

\* "if (min_log2_align < 5) { crop_left &= ...; calc_cropping_offsets(); }"
crop_realigned(frame, desc) ==
    crop_apply(frame, calc_cropping_offsets(frame, desc))

crop_aligned(frame, desc, offsets, min_log2_align) ==
    IF min_log2_align < 5
    THEN crop_realigned([frame EXCEPT !.crop_left = SzClearLow(@, min_log2_align)],
                        desc)
    ELSE crop_apply(frame, offsets)

\* after the first "calc_cropping_offsets(offsets, frame, desc)"
crop_offsets(cfg, frame, desc, offsets) ==
    IF ~cfg.unaligned
    THEN crop_aligned(frame, desc, offsets, MinLog2Align(frame, offsets))
    ELSE crop_apply(frame, offsets)

\* after "desc = av_pix_fmt_desc_get(frame->format)"
crop_desc(cfg, frame, desc) ==
    IF "NODESC" \in desc.flags THEN [ret |-> AVERROR_BUG, frame |-> frame]
    ELSE IF (desc.flags \cap {"BITSTREAM", "HWACCEL"}) # {}
    THEN [ret |-> 0,
          frame |-> [frame EXCEPT
                       !.width = SzToInt(SzSub(SzOf(@), frame.crop_right)),
                       !.height = SzToInt(SzSub(SzOf(@), frame.crop_bottom)),
                       !.crop_right = SzZero, !.crop_bottom = SzZero]]
    ELSE crop_offsets(cfg, frame, desc, calc_cropping_offsets(frame, desc))

\* apply_cropping: [ret, frame]
apply_cropping(cfg, frame) ==
    IF InvalidCropping(frame) THEN [ret |-> 0, frame |-> ZeroCrop(frame)]
    ELSE IF ~cfg.apply_cropping THEN [ret |-> 0, frame |-> frame]
    ELSE crop_desc(cfg, frame, av_pix_fmt_desc_get(frame.format))

(***************************************************************************)
(* The backend (the codec behind decode / receive_frame, or the frame      *)
(* threading scheduler behind ff_thread_decode_frame).  It is any codec    *)
(* that keeps to the contract of its entry point: an error comes without a *)
(* frame, a call that neither errs nor emits a frame consumes at least one *)
(* byte of a non-empty packet, only a codec with delayed output (or the    *)
(* frame-threading scheduler) holds frames back, and it holds at most      *)
(* MaxHeld.  Whether an emitted frame has a backing buffer (cfg.bufs), and *)
(* its geometry (cfg.geoms), are the backend's choice.                     *)
(***************************************************************************)
EmittedFrame(s, buf0, g) ==
    IF s.cfg.video
    THEN [buf0 |-> buf0, id |-> s.hist.total + 1,
          width |-> g.width, height |-> g.height,
          crop_left |-> g.crop_left, crop_right |-> g.crop_right,
          crop_top |-> g.crop_top, crop_bottom |-> g.crop_bottom,
          format |-> s.cfg.pix_fmt,
          data |-> IF s.cfg.pix_fmt = "YUV420P"
                   THEN <<SzOf(4096), SzOf(8192), SzOf(12288), SzZero>>
                   ELSE IF s.cfg.pix_fmt = "PAL8"
                   THEN <<SzOf(4096), SzOf(8192), SzZero, SzZero>>
                   ELSE <<SzOf(4096), SzZero, SzZero, SzZero>>,
          linesize |-> IF s.cfg.pix_fmt = "YUV420P" THEN <<64, 32, 32, 0>>
                       ELSE <<64, 0, 0, 0>>]
    ELSE [NoFrame EXCEPT !.buf0 = buf0, !.id = s.hist.total + 1,
                         !.format = "S16",
                         !.data = <<SzOf(4096), SzZero, SzZero, SzZero>>,
                         !.linesize = <<64, 0, 0, 0>>]

EmittedFrames(s) ==
    IF s.hist.total >= MaxFrames THEN {}
    ELSE { EmittedFrame(s, b, g) : b \in s.cfg.bufs, g \in s.cfg.geoms }

\* the history of what the backend emitted: produced lists the frames (a
\* frame is set: it has its buffers)
NoteEmitted(s, f) ==
    [s EXCEPT !.hist.total = @ + 1,
              !.hist.produced = IF f.buf0 THEN Append(@, f.id) ELSE @]

CanHold(s) ==
    /\ s.cfg.delay \/ s.cfg.shape # "simple"
    /\ s.codec.held < MaxHeld

CanErr(s) == s.hist.errs < MaxErrs

BackendNone(s, k, held) ==
    [s |-> [s EXCEPT !.codec.held = held], ret |-> k, got_frame |-> FALSE,
     frame |-> NoFrame]

BackendEmit(s, k, f, held) ==
    [s |-> NoteEmitted([s EXCEPT !.codec.held = held], f), ret |-> k,
     got_frame |-> TRUE, frame |-> f]

\* the backend on a packet s handed it (fed): an error, or some bytes
\* consumed with or without a frame; on the drain packet, a held frame or
\* nothing
BackendFed(s, pkt) ==
    ( IF CanErr(s)
      THEN {[s |-> [s EXCEPT !.hist.errs = @ + 1], ret |-> AVERROR_EIO,
             got_frame |-> FALSE, frame |-> NoFrame]}
      ELSE {} )
    \cup
    ( IF pkt.size > 0
      THEN { BackendNone(s, k, s.codec.held) : k \in 1..pkt.size }
           \cup { BackendNone(s, k, s.codec.held + 1) :
                    k \in IF CanHold(s) THEN 1..pkt.size ELSE {} }
           \cup { BackendEmit(s, k, f, s.codec.held) :
                    k \in 0..pkt.size, f \in EmittedFrames(s) }
      ELSE { BackendNone(s, 0, 0) }
           \cup { BackendEmit(s, 0, f, s.codec.held - 1) :
                    f \in IF s.codec.held > 0 THEN EmittedFrames(s) ELSE {} } )

\* codec->decode / ff_thread_decode_frame on pkt: the set of
\* [s, ret, got_frame, frame]
BackendDecode(s, pkt) == BackendFed([s EXCEPT !.hist.fed = Append(@, pkt)], pkt)

\* dsi_decoded keeping the timestamps of a packet it consumed a part of
dsi_decoded_keep_ts(s, pkt, b) ==
    LET \* get_buffer is supposed to set frame parameters
        f1  == IF b.got_frame /\ s.cfg.shape = "simple" /\ ~s.cfg.dr1
               THEN [b.frame EXCEPT !.width = s.width, !.height = s.height]
               ELSE b.frame
        ret == IF b.ret >= 0 /\ s.cfg.video THEN pkt.size ELSE b.ret
        s1  == [b.s EXCEPT
                  !.draining_done = @ \/ (s.draining /\ ~b.got_frame),
                  !.compat_decode_consumed = @ + ret,
                  !.hist.consumed = IF ret > 0 THEN @ + ret ELSE @,
                  !.hist.rets = Append(@, b.ret),
                  \* av_assert0(frame->buf[0])
                  !.aborted = @ \/ (b.got_frame /\ ~b.frame.buf0)]
    IN  [s |-> IF ret >= pkt.size \/ ret < 0
               THEN [s1 EXCEPT !.in_pkt = NoPkt]
               ELSE [s1 EXCEPT !.in_pkt.size = @ - ret],
         ret |-> IF ret < 0 THEN ret ELSE 0, frame |-> f1]

\* decode_simple_internal from "emms_c()" on: b is what the backend
\* returned on s.in_pkt
dsi_decoded(s, pkt, b) ==
    LET \* get_buffer is supposed to set frame parameters
        f1  == IF b.got_frame /\ s.cfg.shape = "simple" /\ ~s.cfg.dr1
               THEN [b.frame EXCEPT !.width = s.width, !.height = s.height]
               ELSE b.frame
        ret == IF b.ret >= 0 /\ s.cfg.video THEN pkt.size ELSE b.ret
        s1  == [b.s EXCEPT
                  !.draining_done = @ \/ (s.draining /\ ~b.got_frame),
                  !.compat_decode_consumed = @ + ret,
                  !.hist.consumed = IF ret > 0 THEN @ + ret ELSE @,
                  !.hist.rets = Append(@, b.ret),
                  \* av_assert0(frame->buf[0])
                  !.aborted = @ \/ (b.got_frame /\ ~b.frame.buf0)]
    IN  [s |-> IF ret >= pkt.size \/ ret < 0
               THEN [s1 EXCEPT !.in_pkt = NoPkt]
               ELSE [s1 EXCEPT !.in_pkt.size = @ - ret,
                               !.in_pkt.ts = FALSE,
                               !.last_pkt_props.ts = FALSE],
         ret |-> IF ret < 0 THEN ret ELSE 0, frame |-> f1]

\* dsi_decode with a backend without delay, out of packets, reporting
\* EAGAIN where the source reports the end of the stream
dsi_decode_no_eof(s, frame) ==
    IF s.draining_done
    THEN {[s |-> s, ret |-> AVERROR_EOF, frame |-> frame]}
    ELSE IF s.in_pkt.size = 0 /\ ~(s.cfg.delay \/ s.cfg.shape = "threaded")
    THEN {[s |-> s, ret |-> AVERROR_EAGAIN, frame |-> frame]}
    ELSE { dsi_decoded(s, s.in_pkt, b) : b \in BackendDecode(s, s.in_pkt) }

\* dsi_decode calling the backend whether or not the packet has data
dsi_decode_always(s, frame) ==
    IF s.draining_done
    THEN {[s |-> s, ret |-> AVERROR_EOF, frame |-> frame]}
    ELSE { dsi_decoded(s, s.in_pkt, b) : b \in BackendDecode(s, s.in_pkt) }

\* decode_simple_internal from "if (avci->draining_done)" on
dsi_decode(s, frame) ==
    IF s.draining_done
    THEN {[s |-> s, ret |-> AVERROR_EOF, frame |-> frame]}
    ELSE IF s.in_pkt.size = 0 /\ ~(s.cfg.delay \/ s.cfg.shape = "threaded")
    THEN {[s |-> s, ret |-> AVERROR_EOF, frame |-> frame]}
    ELSE { dsi_decoded(s, s.in_pkt, b) : b \in BackendDecode(s, s.in_pkt) }

\* after "ret = ff_decode_get_packet(avctx, pkt)": g is its result
dsi_fetched(frame, g) ==
    IF g.ret < 0 /\ g.ret # AVERROR_EOF
    THEN {[s |-> [g.s EXCEPT !.in_pkt = g.pkt], ret |-> g.ret, frame |-> frame]}
    ELSE dsi_decode([g.s EXCEPT !.in_pkt = g.pkt], frame)

\* decode_simple_internal: the set of [s, ret, frame]
decode_simple_internal(s, frame) ==
    IF s.in_pkt.size = 0 /\ ~s.draining
    THEN dsi_fetched(frame, ff_decode_get_packet([s EXCEPT !.in_pkt = NoPkt], NoPkt))
    ELSE dsi_decode(s, frame)

\* what a decode_simple_internal call entered with draining_done set
\* returned (history)
NoteDone(s, o) ==
    IF s.draining_done THEN [o EXCEPT !.s.hist.done_rets = @ \cup {o.ret}]
    ELSE o

RECURSIVE decode_simple_receive_frame(_, _)
decode_simple_receive_frame(s, frame) ==
    IF frame.buf0 THEN {[s |-> s, ret |-> 0, frame |-> frame]}
    ELSE UNION { IF o.ret < 0 \/ o.s.aborted THEN {NoteDone(s, o)}
                 ELSE decode_simple_receive_frame(NoteDone(s, o).s, o.frame)
                 : o \in decode_simple_internal(s, frame) }

(***************************************************************************)
(* codec->receive_frame of a backend of the direct shape: it emits a frame *)
(* it held back, or pulls packets with ff_decode_get_packet until it has a *)
(* frame to emit, the chain has no packet, the stream has ended or it      *)
(* errs.  It reports the end of the stream only after the chain did, and   *)
(* then holds nothing.  The set of [s, ret, frame].                        *)
(***************************************************************************)
RECURSIVE codec_receive_frame(_, _)

\* the frames the backend may emit of those it holds
crf_held(s) ==
    { [s |-> NoteEmitted([s EXCEPT !.codec.held = @ - 1], f), ret |-> 0,
       frame |-> f]
      : f \in IF s.codec.held > 0 THEN EmittedFrames(s) ELSE {} }

\* the backend after it pulled a packet (s: the packet is in hist.fed)
crf_fed(s, frame) ==
    ( IF CanErr(s)
      THEN {[s |-> [s EXCEPT !.hist.errs = @ + 1], ret |-> AVERROR_EIO,
             frame |-> frame]}
      ELSE {} )
    \cup { [s |-> NoteEmitted(s, f), ret |-> 0, frame |-> f]
           : f \in EmittedFrames(s) }
    \cup codec_receive_frame(s, frame)
    \cup ( IF s.codec.held < MaxHeld
           THEN codec_receive_frame([s EXCEPT !.codec.held = @ + 1], frame)
           ELSE {} )

\* after the backend's "ret = ff_decode_get_packet(avctx, pkt)"
crf_pulled(frame, g) ==
    IF g.ret = AVERROR_EOF
    THEN {[s |-> [g.s EXCEPT !.codec.held = 0], ret |-> AVERROR_EOF,
           frame |-> frame]}
         \cup crf_held(g.s)
    ELSE IF g.ret < 0
    THEN {[s |-> g.s, ret |-> g.ret, frame |-> frame]}
    ELSE crf_fed([g.s EXCEPT !.hist.fed = Append(@, g.pkt)], frame)

codec_receive_frame(s, frame) ==
    crf_held(s) \cup crf_pulled(frame, ff_decode_get_packet(s, NoPkt))

\* a decode_receive_frame_internal call of this call (history)
NoteDecode(s) == [s EXCEPT !.hist.dri = TRUE]

\* decode_receive_frame_internal: the set of [s, ret, frame]
decode_receive_frame_internal(s, frame) ==
    IF frame.buf0
    THEN {[s |-> [NoteDecode(s) EXCEPT !.aborted = TRUE,
                                       !.hist.overwritten = TRUE],
           ret |-> 0, frame |-> frame]}
    ELSE { IF o.ret = AVERROR_EOF /\ ~o.s.aborted
           THEN [o EXCEPT !.s.draining_done = TRUE] ELSE o
           : o \in IF s.cfg.shape = "direct"
                   THEN codec_receive_frame(NoteDecode(s), frame)
                   ELSE decode_simple_receive_frame(NoteDecode(s), frame) }

(***************************************************************************)
(* The public entry points.  Each is the set of outcomes of one call.      *)
(***************************************************************************)
\* send_queued returning success whatever the decode attempt returned
send_queued_swallow(s) ==
    IF s.buffer_frame.buf0 THEN {[s |-> s, ret |-> 0]}
    ELSE { [s   |-> [o.s EXCEPT !.buffer_frame = o.frame,
                                !.hist.opp = [ran |-> TRUE, ret |-> o.ret]],
            ret |-> 0]
           : o \in decode_receive_frame_internal(s, s.buffer_frame) }

\* send_queued decoding into the staging frame whether or not it holds a
\* frame: a staged frame is released for the new one
send_queued_overwrite(s) ==
    { [s   |-> [o.s EXCEPT !.buffer_frame = o.frame,
                           !.hist.opp = [ran |-> TRUE, ret |-> o.ret]],
       ret |-> IF o.ret < 0 /\ o.ret # AVERROR_EAGAIN /\ o.ret # AVERROR_EOF
               THEN o.ret ELSE 0]
      : o \in decode_receive_frame_internal(s, NoFrame) }

\* send_queued decoding whether or not a frame is staged
send_queued_always(s) ==
    { [s   |-> [o.s EXCEPT !.buffer_frame = o.frame,
                           !.hist.opp = [ran |-> TRUE, ret |-> o.ret]],
       ret |-> IF o.ret < 0 /\ o.ret # AVERROR_EAGAIN /\ o.ret # AVERROR_EOF
               THEN o.ret ELSE 0]
      : o \in decode_receive_frame_internal(s, s.buffer_frame) }

\* avcodec_send_packet after av_bsf_send_packet returned success
send_queued(s) ==
    IF s.buffer_frame.buf0 THEN {[s |-> s, ret |-> 0]}
    ELSE { [s   |-> [o.s EXCEPT !.buffer_frame = o.frame,
                                !.hist.opp = [ran |-> TRUE, ret |-> o.ret]],
            ret |-> IF o.ret < 0 /\ o.ret # AVERROR_EAGAIN /\ o.ret # AVERROR_EOF
                    THEN o.ret ELSE 0]
           : o \in decode_receive_frame_internal(s, s.buffer_frame) }

\* after "ret = av_bsf_send_packet(avci->filter.bsfs[0], avci->buffer_pkt)"
send_filtered(s, q) ==
    IF q.ret < 0
    THEN {[s |-> [s EXCEPT !.bsfs[1] = q.f, !.buffer_pkt = NoPkt], ret |-> q.ret]}
    ELSE send_queued([s EXCEPT !.bsfs[1] = q.f, !.buffer_pkt = q.pkt,
                               !.hist.queued = TRUE,
                               !.hist.pushed = IF PktEmpty(s.buffer_pkt) THEN @
                                               ELSE Append(@, s.buffer_pkt)])

\* "av_bsf_send_packet(avci->filter.bsfs[0], ...)" with no filter in the
\* chain: filter.bsfs is NULL, reading it is undefined; the process ends
\* there, or whatever is taken for a filter refuses the packet
send_no_filter(s) ==
    { [s |-> [s EXCEPT !.aborted = TRUE], ret |-> 0],
      [s |-> [s EXCEPT !.buffer_pkt = NoPkt], ret |-> AVERROR_EINVAL] }

\* after "ret = bsfs_init(avctx)"
send_inited(i, avpkt) ==
    IF i.ret < 0 THEN {[s |-> i.s, ret |-> i.ret]}
    ELSE IF Len(i.s.bsfs) = 0 THEN send_no_filter(i.s)
    ELSE send_filtered([i.s EXCEPT !.buffer_pkt = avpkt],
                       av_bsf_send_packet(i.s.bsfs[1], avpkt))

\* avcodec_send_packet starting the stream over when it is handed a packet
\* after the end of the stream
avcodec_send_packet_restart(s, avpkt) ==
    IF ~s.cfg.open THEN {[s |-> s, ret |-> AVERROR_EINVAL]}
    ELSE UNION { send_inited(i, avpkt)
                 : i \in bsfs_init([s EXCEPT !.draining = FALSE,
                                             !.draining_done = FALSE]) }

\* avcodec_send_packet: the set of [s, ret]; avpkt = NoPkt stands for a
\* NULL packet and for a packet with neither data nor side data
avcodec_send_packet(s, avpkt) ==
    IF ~s.cfg.open THEN {[s |-> s, ret |-> AVERROR_EINVAL]}
    ELSE IF s.draining THEN {[s |-> s, ret |-> AVERROR_EOF]}
    ELSE UNION { send_inited(i, avpkt) : i \in bsfs_init(s) }

\* avcodec_receive_frame returning a frame without counting it
receive_cropped_uncounted(o, c) ==
    IF c.ret < 0
    THEN [s |-> [o.s EXCEPT !.hist.delivered = o.frame], ret |-> c.ret,
          frame |-> NoFrame]
    ELSE [s |-> [o.s EXCEPT
                   !.hist.returned = IF c.frame.buf0 THEN Append(@, c.frame.id)
                                     ELSE @,
                   !.hist.delivered = o.frame],
          ret |-> 0, frame |-> c.frame]

\* avcodec_receive_frame after a frame was obtained: c is what
\* apply_cropping returned for it
receive_cropped(o, c) ==
    IF c.ret < 0
    THEN [s |-> [o.s EXCEPT !.hist.delivered = o.frame], ret |-> c.ret,
          frame |-> NoFrame]
    ELSE [s |-> [o.s EXCEPT
                   !.frame_number = @ + 1,
                   !.hist.returned = IF c.frame.buf0 THEN Append(@, c.frame.id)
                                     ELSE @,
                   !.hist.delivered = o.frame],
          ret |-> 0, frame |-> c.frame]

\* o is the outcome of taking the staged frame or of
\* decode_receive_frame_internal
receive_got(o) ==
    IF o.ret < 0 \/ o.s.aborted THEN o
    ELSE receive_cropped(o, IF o.s.cfg.video THEN apply_cropping(o.s.cfg, o.frame)
                            ELSE [ret |-> 0, frame |-> o.frame])

\* after "ret = bsfs_init(avctx)"
receive_inited(i) ==
    IF i.ret < 0 THEN {[s |-> i.s, ret |-> i.ret, frame |-> NoFrame]}
    ELSE { receive_got(o) :
             o \in IF i.s.buffer_frame.buf0
                   THEN {[s |-> [i.s EXCEPT !.buffer_frame = NoFrame], ret |-> 0,
                          frame |-> i.s.buffer_frame]}
                   ELSE decode_receive_frame_internal(i.s, NoFrame) }

\* avcodec_receive_frame: the set of [s, ret, frame], frame being the
\* caller's frame afterwards
avcodec_receive_frame(s, frame0) ==
    IF ~s.cfg.open THEN {[s |-> s, ret |-> AVERROR_EINVAL, frame |-> NoFrame]}
    ELSE UNION { receive_inited(i) : i \in bsfs_init(s) }

\* "if (HAVE_THREADS && avctx->active_thread_type & FF_THREAD_FRAME)
\* ff_thread_flush(avctx); else if (avctx->codec->flush)
\* avctx->codec->flush(avctx);": the backend after it.  ff_thread_flush and
\* the codec's flush drop the frames the backend held; a codec that declares
\* no flush is not called and keeps them
codec_flush(s) ==
    IF s.cfg.shape = "threaded" \/ s.cfg.flush
    THEN [s.codec EXCEPT !.held = 0]
    ELSE s.codec

\* avcodec_flush_buffers leaving the filter chain as it is
avcodec_flush_buffers_keep_bsfs(s) ==
    LET s1 == [s EXCEPT !.draining = FALSE, !.draining_done = FALSE,
                        !.buffer_frame = NoFrame,
                        !.compat_decode_frame = NoFrame,
                        !.buffer_pkt = NoPkt, !.in_pkt = NoPkt,
                        !.codec = codec_flush(s)]
    IN  IF ~s.cfg.refcounted_frames THEN [s1 EXCEPT !.to_free = NoFrame] ELSE s1

\* avcodec_flush_buffers
avcodec_flush_buffers(s) ==
    LET s1 == [s EXCEPT !.draining = FALSE, !.draining_done = FALSE,
                        !.buffer_frame = NoFrame,
                        !.compat_decode_frame = NoFrame,
                        !.buffer_pkt = NoPkt, !.in_pkt = NoPkt,
                        !.codec = codec_flush(s)]
        s2 == ff_decode_bsfs_uninit(s1)
    IN  IF ~s.cfg.refcounted_frames THEN [s2 EXCEPT !.to_free = NoFrame] ELSE s2

\* unrefcount_frame: the buffers move to to_free, the caller's frame keeps
\* the properties and the plane pointers
unrefcount_frame(s, frame) ==
    [s |-> [s EXCEPT !.to_free = frame], ret |-> 0,
     frame |-> [frame EXCEPT !.buf0 = FALSE]]

\* the label finish of compat_decode, on one outcome r of what precedes it
\* the label finish of compat_decode taking every packet for consumed whole
compat_finish_whole(r, pkt) ==
    LET ret == IF r.ret = 0 THEN pkt.size ELSE r.ret
    IN  IF r.s.aborted THEN r
        ELSE [r EXCEPT !.ret = ret,
                       !.s.compat_decode_consumed = 0,
                       !.s.compat_decode_partial_size =
                           IF ret >= 0 THEN pkt.size - ret ELSE 0]

compat_finish(r, pkt) ==
    LET ret == IF r.ret = 0
               THEN IF r.s.cfg.has_bsfs THEN pkt.size
                    ELSE Min(r.s.compat_decode_consumed, pkt.size)
               ELSE r.ret
    IN  IF r.s.aborted THEN r
        ELSE [r EXCEPT !.ret = ret,
                       !.s.compat_decode_consumed = 0,
                       !.s.compat_decode_partial_size =
                           IF ret >= 0 THEN pkt.size - ret ELSE 0]

\* the loop "while (ret >= 0)" of compat_decode: the set of
\* [s, ret, got_frame, frame]; user is TRUE while frame is the caller's
\* frame and FALSE once it is avci->compat_decode_frame
RECURSIVE compat_loop(_, _, _, _, _)
compat_loop(s, pkt, frame, got_frame, user) ==
    UNION {
      LET s1 == IF user THEN o.s ELSE [o.s EXCEPT !.compat_decode_frame = o.frame]
          f1 == IF user THEN o.frame ELSE frame
      IN  IF o.s.aborted
          THEN {[s |-> o.s, ret |-> 0, got_frame |-> got_frame, frame |-> f1]}
          ELSE IF o.ret < 0
          THEN {[s |-> s1,
                 ret |-> IF o.ret \in {AVERROR_EAGAIN, AVERROR_EOF} THEN 0 ELSE o.ret,
                 got_frame |-> got_frame, frame |-> f1]}
          ELSE
            LET u  == IF user /\ ~s.cfg.refcounted_frames
                      THEN unrefcount_frame(s1, f1)
                      ELSE [s |-> s1, ret |-> 0, frame |-> f1]
                s2 == IF user THEN u.s
                      ELSE [u.s EXCEPT !.compat_decode_warned = TRUE]
            IN  IF s2.draining \/ (~s2.cfg.has_bsfs
                                   /\ s2.compat_decode_consumed < pkt.size)
                THEN {[s |-> s2, ret |-> 0, got_frame |-> TRUE, frame |-> u.frame]}
                ELSE compat_loop(s2, pkt, u.frame, TRUE, FALSE)
      : o \in avcodec_receive_frame(s, IF user THEN frame ELSE s.compat_decode_frame) }

\* history: the legacy call handed its packet to avcodec_send_packet
NoteSubmit(s) == [s EXCEPT !.hist.submitted = TRUE]

\* compat_decode: the set of [s, ret, got_frame, frame].  "int ret" is
\* read uninitialized by "while (ret >= 0)" when a remainder of the same
\* size is pending: the loop is entered, or it is skipped with a negative
\* value
compat_decode(s0, frame, pkt) ==
    LET s    == [s0 EXCEPT !.compat_decode = TRUE]
        stop(x, ret) == [s |-> x, ret |-> ret, got_frame |-> FALSE, frame |-> frame]
        sent == { IF o.ret = AVERROR_EOF THEN [o EXCEPT !.ret = 0]
                  ELSE IF o.ret = AVERROR_EAGAIN THEN [o EXCEPT !.ret = AVERROR_BUG]
                  ELSE o
                  : o \in avcodec_send_packet(NoteSubmit(s), pkt) }
        body ==
          IF s.compat_decode_partial_size > 0
             /\ s.compat_decode_partial_size # pkt.size
          THEN {stop(s, AVERROR_EINVAL)}
          ELSE IF s.compat_decode_partial_size = 0
          THEN UNION { IF o.ret < 0 \/ o.s.aborted THEN {stop(o.s, o.ret)}
                       ELSE compat_loop(o.s, pkt, frame, FALSE, TRUE)
                       : o \in sent }
          ELSE {stop(s, -1)} \cup compat_loop(s, pkt, frame, FALSE, TRUE)
    IN  IF s0.compat_decode_consumed # 0
        THEN {stop([s0 EXCEPT !.aborted = TRUE], 0)}
        ELSE { compat_finish(r, pkt) : r \in body }


(***************************************************************************)
(* The default frame buffer pool (FramePool, avctx->internal->pool).       *)
(* A frame handed to avcodec_default_get_buffer2 is a record               *)
(*   format, width, height, nb_samples, nb_channels (ch_layout),           *)
(*   data0 (data[0] is set), buf (the pool each buf[i] was taken from, 0   *)
(*   for NULL), extended_buf, nb_extended_buf, linesize.                   *)
(* The pool is a record format, width, height, planes, channels, samples,  *)
(* linesize, stride_align and pools: pools[i] names the AVBufferPool of    *)
(* plane i by the number it was created with (0 for NULL), made counts the *)
(* pools created so far.  An allocation may fail whenever it is tried.     *)
(***************************************************************************)
AV_NUM_DATA_POINTERS == 8

NoBufs == [i \in 1..AV_NUM_DATA_POINTERS |-> 0]

\* a frame after av_frame_unref / av_frame_alloc
NoPic ==
    [format |-> "NONE", width |-> 0, height |-> 0, nb_samples |-> 0,
     nb_channels |-> 0, data0 |-> FALSE, buf |-> NoBufs,
     extended_buf |-> <<>>, nb_extended_buf |-> 0, linesize |-> <<0, 0, 0, 0>>]

\* the pool av_mallocz leaves when the decoder is opened: every field zero,
\* and 0 is the first format of the enum
ZeroedPool(c) ==
    [format |-> IF c.video THEN "YUV420P" ELSE "U8", width |-> 0, height |-> 0,
     planes |-> 0, channels |-> 0, samples |-> 0, linesize |-> <<0, 0, 0, 0>>,
     stride_align |-> <<0, 0, 0, 0>>, pools |-> <<0, 0, 0, 0>>, made |-> 0]

\* the label fail of update_frame_pool
pool_fail(pool, ret) ==
    [pool |-> [pool EXCEPT !.pools = <<0, 0, 0, 0>>, !.format = "NONE",
                           !.planes = 0, !.channels = 0, !.samples = 0,
                           !.width = 0, !.height = 0],
     ret |-> ret]

\* FFALIGN(x, a)
FFALIGN(x, a) == ((x + a - 1) \div a) * a

\* the alignment avcodec_align_dimensions2 asks of the strides, and of the
\* width and the height
STRIDE_ALIGN == 4

\* avcodec_align_dimensions2: [w, h, linesize_align]
avcodec_align_dimensions2(w, h) ==
    [w |-> FFALIGN(w, STRIDE_ALIGN), h |-> FFALIGN(h, STRIDE_ALIGN),
     linesize_align |-> <<STRIDE_ALIGN, STRIDE_ALIGN, STRIDE_ALIGN, STRIDE_ALIGN>>]

\* av_image_fill_linesizes
av_image_fill_linesizes(pix_fmt, w) ==
    IF pix_fmt = "YUV420P" THEN <<w, (w + 1) \div 2, (w + 1) \div 2, 0>>
    ELSE <<3 * w, 0, 0, 0>>

\* av_image_fill_pointers with a NULL base: the offset of each plane and the
\* size of the image, or an error when a plane passes INT_MAX
av_image_fill_pointers(pix_fmt, h, linesize) ==
    IF linesize[1] > (INT_MAX - 1024) \div h
    THEN [ret |-> AVERROR_EINVAL, data |-> <<0, 0, 0, 0>>]
    ELSE IF pix_fmt = "YUV420P"
    THEN LET s0 == linesize[1] * h
             s1 == linesize[2] * ((h + 1) \div 2)
         IN  [ret |-> s0 + 2 * s1, data |-> <<0, s0, s0 + s1, 0>>]
    ELSE [ret |-> linesize[1] * h, data |-> <<0, 0, 0, 0>>]

\* "w & ~(w - 1)": the lowest bit set in w
RECURSIVE LowBit(_)
LowBit(w) == IF w % 2 = 1 THEN 1 ELSE 2 * LowBit(w \div 2)

\* the loop "do { av_image_fill_linesizes(); w += w & ~(w - 1); ... }
\* while (unaligned)": the linesizes it ends with
RECURSIVE AlignedLinesizes(_, _, _)
AlignedLinesizes(pix_fmt, w, align) ==
    IF \A i \in 1..4 : av_image_fill_linesizes(pix_fmt, w)[i] % align[i] = 0
    THEN av_image_fill_linesizes(pix_fmt, w)
    ELSE AlignedLinesizes(pix_fmt, w + LowBit(w), align)

\* "for (i = 0; i < 3 && data[i + 1]; i++) size[i] = data[i + 1] - data[i];
\* size[i] = tmpsize - (data[i] - data[0]);" (planes count from 1 here)
PlaneSizes(p) ==
    LET last == IF p.data[2] = 0 THEN 1
                ELSE IF p.data[3] = 0 THEN 2
                ELSE IF p.data[4] = 0 THEN 3 ELSE 4
    IN  [i \in 1..4 |-> IF i < last THEN p.data[i + 1] - p.data[i]
                        ELSE IF i = last THEN p.ret - p.data[i]
                        ELSE 0]

\* the pools of the planes 1..k - 1 created, the other planes without one
PoolsUpTo(size, made, k) ==
    [i \in 1..4 |-> IF i < k /\ size[i] > 0
                    THEN made + Cardinality({j \in 1..i : size[j] > 0})
                    ELSE 0]

\* the loop "for (i = 0; i < 4; i++)" of update_frame_pool: every pool is
\* created, or av_buffer_pool_init fails for the plane k
ufp_video_pools(pool, frame, linesize, size) ==
    LET n  == Cardinality({j \in 1..4 : size[j] > 0})
        p1 == [pool EXCEPT !.linesize = linesize]
    IN  { [pool |-> [p1 EXCEPT !.pools = PoolsUpTo(size, pool.made, 5),
                               !.made = @ + n,
                               !.format = frame.format,
                               !.width = frame.width,
                               !.height = frame.height],
           ret |-> 0] }
        \cup
        { pool_fail([p1 EXCEPT
                       !.made = @ + Cardinality({j \in 1..(k - 1) : size[j] > 0}),
                       !.linesize = [i \in 1..4 |-> IF i <= k THEN linesize[i]
                                                    ELSE pool.linesize[i]]],
                    AVERROR_ENOMEM)
          : k \in {j \in 1..4 : size[j] > 0} }

\* after "tmpsize = av_image_fill_pointers(...)": p is its result
ufp_video_filled(pool, frame, linesize, p) ==
    IF p.ret < 0 THEN {[pool |-> pool, ret |-> -1]}
    ELSE ufp_video_pools(pool, frame, linesize, PlaneSizes(p))

\* after "avcodec_align_dimensions2(avctx, &w, &h, pool->stride_align)"
ufp_video_aligned(c, pool, frame, a) ==
    ufp_video_filled([pool EXCEPT !.stride_align = a.linesize_align], frame,
        AlignedLinesizes(c.pix_fmt, a.w, a.linesize_align),
        av_image_fill_pointers(c.pix_fmt, a.h,
            AlignedLinesizes(c.pix_fmt, a.w, a.linesize_align)))

\* update_frame_pool comparing the format and the width only
update_frame_pool_video_no_height(c, pool, frame) ==
    IF pool.format = frame.format /\ pool.width = frame.width
    THEN {[pool |-> pool, ret |-> 0]}
    ELSE ufp_video_aligned(c, pool, frame,
                           avcodec_align_dimensions2(frame.width, frame.height))

\* update_frame_pool, case AVMEDIA_TYPE_VIDEO: the set of [pool, ret]
update_frame_pool_video(c, pool, frame) ==
    IF pool.format = frame.format /\ pool.width = frame.width
       /\ pool.height = frame.height
    THEN {[pool |-> pool, ret |-> 0]}
    ELSE ufp_video_aligned(c, pool, frame,
                           avcodec_align_dimensions2(frame.width, frame.height))

\* av_sample_fmt_is_planar
av_sample_fmt_is_planar(fmt) == fmt \in {"S16P", "FLTP"}

\* av_get_bytes_per_sample
av_get_bytes_per_sample(fmt) ==
    IF fmt \in {"S16", "S16P"} THEN 2
    ELSE IF fmt \in {"FLT", "FLTP"} THEN 4
    ELSE IF fmt = "U8" THEN 1 ELSE 0

\* av_samples_get_buffer_size with align 0: [ret, linesize]; on an error the
\* linesize is not written
av_samples_get_buffer_size(linesize, ch, nb_samples, fmt) ==
    IF av_get_bytes_per_sample(fmt) = 0 \/ ch <= 0 \/ nb_samples <= 0
    THEN [ret |-> AVERROR_EINVAL, linesize |-> linesize]
    ELSE LET line == IF av_sample_fmt_is_planar(fmt)
                     THEN FFALIGN(nb_samples, 32) * av_get_bytes_per_sample(fmt)
                     ELSE FFALIGN(nb_samples, 32) * av_get_bytes_per_sample(fmt) * ch
         IN  [ret |-> IF av_sample_fmt_is_planar(fmt) THEN line * ch ELSE line,
              linesize |-> line]

\* after "ret = av_samples_get_buffer_size(&pool->linesize[0], ...)"
ufp_audio_sized(pool, frame, planes, r) ==
    IF r.ret < 0 THEN {pool_fail(pool, r.ret)}
    ELSE { [pool |-> [pool EXCEPT !.linesize[1] = r.linesize,
                                  !.pools[1] = pool.made + 1, !.made = @ + 1,
                                  !.format = frame.format, !.planes = planes,
                                  !.channels = frame.nb_channels,
                                  !.samples = frame.nb_samples],
            ret |-> 0],
           pool_fail([pool EXCEPT !.linesize[1] = r.linesize], AVERROR_ENOMEM) }

\* update_frame_pool, case AVMEDIA_TYPE_AUDIO: the set of [pool, ret]
update_frame_pool_audio(c, pool, frame, planes) ==
    IF pool.format = frame.format /\ pool.planes = planes
       /\ pool.channels = frame.nb_channels /\ frame.nb_samples = pool.samples
    THEN {[pool |-> pool, ret |-> 0]}
    ELSE ufp_audio_sized([pool EXCEPT !.pools[1] = 0], frame, planes,
             av_samples_get_buffer_size(pool.linesize[1], frame.nb_channels,
                                        frame.nb_samples, frame.format))

\* update_frame_pool: the set of [pool, ret]
update_frame_pool(c, pool, frame) ==
    IF c.video THEN update_frame_pool_video(c, pool, frame)
    ELSE update_frame_pool_audio(c, pool, frame,
             IF av_sample_fmt_is_planar(frame.format) THEN c.nb_channels ELSE 1)

\* the loop "for (i = 0; i < 4 && pool->pools[i]; i++)": the planes that
\* have a pool
PooledPlanes(pool) ==
    IF pool.pools[1] = 0 THEN 0
    ELSE IF pool.pools[2] = 0 THEN 1
    ELSE IF pool.pools[3] = 0 THEN 2
    ELSE IF pool.pools[4] = 0 THEN 3 ELSE 4

\* video_get_buffer: the set of [ret, frame]; every av_buffer_pool_get may
\* fail
video_get_buffer(pool, pic) ==
    IF pic.data0 THEN {[ret |-> -1, frame |-> pic]}
    ELSE { [ret |-> 0,
            frame |-> [pic EXCEPT
                         !.buf = [i \in 1..AV_NUM_DATA_POINTERS |->
                                    IF i <= PooledPlanes(pool) THEN pool.pools[i]
                                    ELSE 0],
                         !.linesize = [i \in 1..4 |->
                                    IF i <= PooledPlanes(pool) THEN pool.linesize[i]
                                    ELSE 0],
                         !.data0 = PooledPlanes(pool) > 0]] }
         \cup { [ret |-> AVERROR_ENOMEM, frame |-> NoPic]
                : k \in 1..PooledPlanes(pool) }

\* audio_get_buffer: the set of [ret, frame]; av_mallocz and every
\* av_buffer_pool_get may fail
audio_get_buffer(pool, frame) ==
    LET f1 == [frame EXCEPT !.linesize[1] = pool.linesize[1]]
        f2 == IF pool.planes > AV_NUM_DATA_POINTERS
              THEN [f1 EXCEPT !.nb_extended_buf = pool.planes - AV_NUM_DATA_POINTERS]
              ELSE f1
    IN  { [ret |-> 0,
           frame |-> [f2 EXCEPT
                        !.buf = [i \in 1..AV_NUM_DATA_POINTERS |->
                                   IF i <= pool.planes THEN pool.pools[1] ELSE 0],
                        !.extended_buf = [i \in 1..f2.nb_extended_buf |->
                                            pool.pools[1]],
                        !.data0 = pool.planes > 0]] }
        \cup { [ret |-> AVERROR_ENOMEM, frame |-> NoPic] : k \in 1..pool.planes }
        \cup ( IF pool.planes > AV_NUM_DATA_POINTERS
               THEN {[ret |-> AVERROR_ENOMEM, frame |-> f2]}
               ELSE {} )

\* av_hwframe_get_buffer (hwcontext.c): a frame of the hardware pool, or an
\* error
av_hwframe_get_buffer(frame) ==
    { [ret |-> 0, frame |-> [frame EXCEPT !.buf[1] = -1, !.data0 = TRUE]],
      [ret |-> AVERROR_ENOMEM, frame |-> frame] }

\* after "ret = update_frame_pool(avctx, frame)": u is its result
gb2_updated(c, frame, u) ==
    IF u.ret < 0
    THEN {[pool |-> u.pool, upd |-> u.ret, ret |-> u.ret, frame |-> frame]}
    ELSE { [pool |-> u.pool, upd |-> 0, ret |-> g.ret, frame |-> g.frame]
           : g \in IF c.video THEN video_get_buffer(u.pool, frame)
                   ELSE audio_get_buffer(u.pool, frame) }

\* avcodec_default_get_buffer2: the set of [pool, upd, ret, frame], upd
\* being what update_frame_pool returned
avcodec_default_get_buffer2(c, pool, frame) ==
    IF c.hw_frames_ctx
    THEN { [pool |-> pool, upd |-> 0, ret |-> h.ret, frame |-> h.frame]
           : h \in av_hwframe_get_buffer(frame) }
    ELSE UNION { gb2_updated(c, frame, u) : u \in update_frame_pool(c, pool, frame) }

(***************************************************************************)
(* Format negotiation (ff_get_format).  A pixel format is a name; a list   *)
(* of formats is a sequence, its terminating AV_PIX_FMT_NONE left out.     *)
(* The outcome of a negotiation also records the list each call of the     *)
(* get_format callback was given (lists) and what it returned (picks).     *)
(***************************************************************************)
is_hwaccel_pix_fmt(pix_fmt) == "HWACCEL" \in av_pix_fmt_desc_get(pix_fmt).flags

avcodec_default_get_format(fmt) ==
    IF \A i \in 1..Len(fmt) : is_hwaccel_pix_fmt(fmt[i]) THEN "NONE"
    ELSE fmt[CHOOSE i \in 1..Len(fmt) :
                 /\ ~is_hwaccel_pix_fmt(fmt[i])
                 /\ \A j \in 1..(i - 1) : is_hwaccel_pix_fmt(fmt[j])]

AVERROR_ENOENT == -2

\* setup_hwaccel: what it can return, with avctx->hwaccel ("NONE": NULL)
\* and whether hwaccel_priv_data is allocated afterwards; the codec has an
\* AVHWAccel for the formats of c.hwaccels, with private data, whose
\* allocation may fail, and an init, which may fail
setup_hwaccel(c, fmt) ==
    IF fmt \notin c.hwaccels
    THEN {[ret |-> AVERROR_ENOENT, hwaccel |-> "NONE", priv |-> FALSE]}
    ELSE { [ret |-> AVERROR_ENOMEM, hwaccel |-> "NONE", priv |-> FALSE],
           [ret |-> AVERROR_EINVAL, hwaccel |-> "NONE", priv |-> FALSE],
           [ret |-> 0, hwaccel |-> fmt, priv |-> TRUE] }

\* "for (n = 0; choices[n] != ret; n++); do choices[n] = choices[n + 1];
\* while (choices[n++] != AV_PIX_FMT_NONE);" for a ret that is in choices
RemoveChoiceAndRest(choices, ret) ==
    LET n == CHOOSE i \in 1..Len(choices) :
                 choices[i] = ret /\ \A j \in 1..(i - 1) : choices[j] # ret
    IN  SubSeq(choices, 1, n - 1)

RemoveChoice(choices, ret) ==
    LET n == CHOOSE i \in 1..Len(choices) :
                 choices[i] = ret /\ \A j \in 1..(i - 1) : choices[j] # ret
    IN  SubSeq(choices, 1, n - 1) \o SubSeq(choices, n + 1, Len(choices))

\* what avctx->get_format returns for a list, and the format of the
\* AVHWFramesContext it leaves in avctx->hw_frames_ctx ("NONE": none): the
\* default callback, one that returns any member of the list, and one that
\* returns what it likes
get_format(c, choices) ==
    { [ret |-> p, frames |-> f]
      : p \in IF c.get_format = "default"
              THEN {avcodec_default_get_format(choices)}
              ELSE IF c.get_format = "member"
              THEN {choices[i] : i \in 1..Len(choices)}
              ELSE {choices[i] : i \in 1..Len(choices)} \cup {"VDPAU", "BAD"},
        f \in IF c.get_format = "default" THEN {"NONE"}
              ELSE {"NONE", "VAAPI"} }

\* no negotiation yet, and the outcome of one
NoNeg ==
    [calls |-> 0, fmt |-> <<>>, ret |-> "NONE", hwaccel |-> "NONE",
     priv |-> FALSE, hw_frames_ctx |-> "NONE", aborted |-> FALSE,
     lists |-> <<>>, picks |-> <<>>, found |-> "NONE", bound |-> <<>>,
     uninits |-> <<>>]

\* the loop "for (;;)" of ff_get_format: the set of outcomes; g is the
\* outcome so far
RECURSIVE gf_loop(_, _, _)

\* after "ret = avctx->get_format(avctx, choices)": p is what the callback
\* did
gf_picked(c, choices, g, p) ==
    IF "NODESC" \in av_pix_fmt_desc_get(p.ret).flags
    THEN {[g EXCEPT !.ret = "NONE", !.hw_frames_ctx = p.frames]}
    ELSE IF ~is_hwaccel_pix_fmt(p.ret)
    THEN {[g EXCEPT !.ret = p.ret, !.hw_frames_ctx = p.frames]}
    ELSE IF p.frames # "NONE" /\ p.frames # p.ret
    THEN {[g EXCEPT !.ret = "NONE", !.hw_frames_ctx = p.frames]}
    ELSE UNION { IF r.ret = 0
                 THEN {[g EXCEPT !.ret = p.ret, !.hwaccel = r.hwaccel,
                                 !.priv = r.priv,
                                 !.hw_frames_ctx = p.frames]}
                 ELSE IF \A i \in 1..Len(choices) : choices[i] # p.ret
                 THEN {[g EXCEPT !.aborted = TRUE, !.hwaccel = r.hwaccel,
                                 !.priv = r.priv,
                                 !.hw_frames_ctx = p.frames]}
                 ELSE gf_loop(c, RemoveChoice(choices, p.ret),
                              [g EXCEPT !.hwaccel = r.hwaccel, !.priv = r.priv,
                                        !.hw_frames_ctx = p.frames])
                 : r \in setup_hwaccel(c, p.ret) }

\* the head of the loop: "if (avctx->hwaccel && avctx->hwaccel->uninit)
\* avctx->hwaccel->uninit(avctx); av_freep(&hwaccel_priv_data);
\* avctx->hwaccel = NULL; av_buffer_unref(&avctx->hw_frames_ctx);";
\* uninits lists the accelerators uninit was called on (history)
gf_unbound(g) ==
    [g EXCEPT !.uninits = IF g.hwaccel # "NONE" THEN Append(@, g.hwaccel)
                          ELSE @,
              !.hwaccel = "NONE", !.priv = FALSE, !.hw_frames_ctx = "NONE"]

\* the callback is asked: what it is given, what it returns and the
\* accelerator bound at that time (history)
gf_asked(g, choices, p) ==
    [g EXCEPT !.lists = Append(@, choices), !.picks = Append(@, p.ret),
              !.bound = Append(@, g.hwaccel)]

gf_loop(c, choices, g) ==
    UNION { gf_picked(c, choices, gf_asked(gf_unbound(g), choices, p), p)
            : p \in get_format(c, choices) }

\* the context a negotiation starts from: the binding the one before it
\* left, found (history)
gf_start(fmt, b) ==
    [NoNeg EXCEPT !.fmt = fmt, !.hwaccel = b.hwaccel, !.priv = b.priv,
                  !.hw_frames_ctx = b.hw_frames_ctx, !.found = b.hwaccel]

\* ff_get_format on the context the negotiation b before it left: the set
\* of outcomes; av_malloc_array may fail
ff_get_format(c, fmt, b) ==
    IF Len(fmt) = 0 THEN {[gf_start(fmt, b) EXCEPT !.aborted = TRUE]}
    ELSE {gf_start(fmt, b)} \cup gf_loop(c, fmt, gf_start(fmt, b))

(***************************************************************************)
(* The state machine.                                                      *)
(***************************************************************************)
VARIABLES
    cfg,                        \* fixed when the decoder is opened
    draining, draining_done,
    buffer_pkt, buffer_frame, in_pkt, last_pkt_props,
    compat_decode_frame, to_free,
    compat_decode_flag, compat_decode_warned,
    compat_decode_consumed, compat_decode_partial_size,
    bsfs, frame_number,
    channels, channel_layout, sample_rate, width, height,
    codec,                      \* the backend's private state
    aborted,                    \* an av_assert0 failed: the process is gone
    hist,                       \* history kept for the properties
    npkts,                      \* data packets submitted so far
    call,                       \* the last call: [op, pkt]
    call_ret, call_frame, call_got_frame, \* what the last call returned
    pool,                       \* the default frame buffer pool
    getbuf,                     \* the last avcodec_default_get_buffer2 call
    neg                         \* the last ff_get_format call

ctxvars == <<draining, draining_done, buffer_pkt, buffer_frame, in_pkt,
             last_pkt_props, compat_decode_frame, to_free, compat_decode_flag,
             compat_decode_warned, compat_decode_consumed,
             compat_decode_partial_size, bsfs, frame_number, channels,
             channel_layout, sample_rate, width, height, codec, aborted, hist>>

callvars == <<npkts, call, call_ret, call_frame, call_got_frame>>

\* the state of the parts the driver's entry points leave alone
auxvars == <<pool, getbuf, neg>>

vars == <<cfg, ctxvars, callvars, auxvars>>

St ==
    [cfg |-> cfg, draining |-> draining, draining_done |-> draining_done,
     buffer_pkt |-> buffer_pkt, buffer_frame |-> buffer_frame,
     in_pkt |-> in_pkt, last_pkt_props |-> last_pkt_props,
     compat_decode_frame |-> compat_decode_frame, to_free |-> to_free,
     compat_decode |-> compat_decode_flag,
     compat_decode_warned |-> compat_decode_warned,
     compat_decode_consumed |-> compat_decode_consumed,
     compat_decode_partial_size |-> compat_decode_partial_size,
     bsfs |-> bsfs, frame_number |-> frame_number,
     channels |-> channels, channel_layout |-> channel_layout,
     sample_rate |-> sample_rate, width |-> width, height |-> height,
     codec |-> codec, aborted |-> aborted, hist |-> hist]

SetSt(s) ==
    /\ draining' = s.draining
    /\ draining_done' = s.draining_done
    /\ buffer_pkt' = s.buffer_pkt
    /\ buffer_frame' = s.buffer_frame
    /\ in_pkt' = s.in_pkt
    /\ last_pkt_props' = s.last_pkt_props
    /\ compat_decode_frame' = s.compat_decode_frame
    /\ to_free' = s.to_free
    /\ compat_decode_flag' = s.compat_decode
    /\ compat_decode_warned' = s.compat_decode_warned
    /\ compat_decode_consumed' = s.compat_decode_consumed
    /\ compat_decode_partial_size' = s.compat_decode_partial_size
    /\ bsfs' = s.bsfs
    /\ frame_number' = s.frame_number
    /\ channels' = s.channels
    /\ channel_layout' = s.channel_layout
    /\ sample_rate' = s.sample_rate
    /\ width' = s.width
    /\ height' = s.height
    /\ codec' = s.codec
    /\ aborted' = s.aborted
    /\ hist' = s.hist

(***************************************************************************)
(* What the application and the codec are: the inputs of a run.            *)
(***************************************************************************)
\* PARAM_CHANGE payloads: dimensions 32x24 in 12 bytes, and the same cut
\* to 8 bytes
PC12 == <<8, 0, 0, 0, 32, 0, 0, 0, 24, 0, 0, 0>>
PC8  == SubSeq(PC12, 1, 8)

\* the packets a configuration's application submits; NoPkt is the
\* end-of-stream marker, sd_only the side data of its packets without data
AppPackets(c) ==
    {NoPkt} \cup { Pkt(n, sd) : n \in 1..MaxPktSize, sd \in c.side_data }
            \cup { Pkt(0, sd) : sd \in c.sd_only }

\* the opportunistic decode of avcodec_send_packet: whether it ran, and
\* what decode_receive_frame_internal returned (history)
NoOpp == [ran |-> FALSE, ret |-> 0]

\* the geometry of a frame without cropping
NoCrop ==
    [width |-> 16, height |-> 16, crop_left |-> SzZero, crop_right |-> SzZero,
     crop_top |-> SzZero, crop_bottom |-> SzZero]

DefaultCfg ==
    [open |-> TRUE, shape |-> "simple", delay |-> FALSE, video |-> FALSE,
     dr1 |-> TRUE, pix_fmt |-> "YUV420P", param_change |-> FALSE,
     explode |-> FALSE, apply_cropping |-> TRUE, unaligned |-> FALSE,
     refcounted_frames |-> TRUE, has_bsfs |-> FALSE, bsfs |-> <<>>,
     side_data |-> {<<>>}, geoms |-> {NoCrop}, bufs |-> {TRUE},
     flush |-> TRUE, nb_channels |-> 2, hw_frames_ctx |-> FALSE,
     bsf_fails |-> FALSE, hwaccels |-> {}, get_format |-> "default",
     sd_only |-> {}]

\* a codec that names its filter, and one that names two: "null,null"
OneBsf(c) == [c EXCEPT !.has_bsfs = TRUE, !.bsfs = <<"null">>]

TwoBsfs(c) == [c EXCEPT !.has_bsfs = TRUE, !.bsfs = <<"null", ",", "null">>]

\* the decoders of the driver's specification: an instance that is not
\* open and, open, the three shapes of backend, audio and video, with and
\* without delayed output, a flush callback and a filter specification; the
\* simple and the direct audio backend may emit a frame without buffers
Configs ==
    { [DefaultCfg EXCEPT !.open = FALSE],
      [DefaultCfg EXCEPT !.bufs = BOOLEAN],
      [DefaultCfg EXCEPT !.delay = TRUE],
      [DefaultCfg EXCEPT !.delay = TRUE, !.flush = FALSE],
      OneBsf([DefaultCfg EXCEPT !.delay = TRUE, !.video = TRUE]),
      [DefaultCfg EXCEPT !.shape = "direct", !.bufs = BOOLEAN],
      OneBsf([DefaultCfg EXCEPT !.shape = "direct", !.video = TRUE]),
      [DefaultCfg EXCEPT !.shape = "threaded", !.video = TRUE] }

\* the history when nothing has happened yet
NoHist(c) ==
    [total |-> 0, errs |-> 0, produced |-> <<>>, returned |-> <<>>,
     fed |-> <<>>, delivered |-> NoFrame, fetch |-> NoFetch,
     eof_accepted |-> FALSE, eof_returned |-> FALSE, tries |-> 0,
     was_staged |-> FALSE, pure |-> TRUE, queued |-> FALSE, opp |-> NoOpp,
     init |-> NoInit, pushed |-> <<>>, pulled |-> <<>>, consumed |-> 0,
     done_rets |-> {}, rets |-> <<>>, dri |-> FALSE, overwritten |-> FALSE,
     submitted |-> FALSE,
     pre |-> [draining |-> FALSE, draining_done |-> FALSE, partial |-> 0,
              eof_accepted |-> FALSE, eof_returned |-> FALSE,
              staged |-> FALSE, pending |-> FALSE, chain_eof |-> FALSE,
              frame_number |-> 0, held |-> 0, in_pkt |-> NoPkt,
              buffer_frame |-> NoFrame,
              params |-> <<2, 3, 44100, IF c.video THEN 16 ELSE 0,
                           IF c.video THEN 16 ELSE 0>>]]

\* no avcodec_default_get_buffer2 call yet
NoGetBuf(c) ==
    [calls |-> 0, req |-> NoPic, before |-> ZeroedPool(c), upd |-> 0,
     ret |-> 0, frame |-> NoPic]

\* the context of a decoder that was just opened
OpenedSt(c) ==
    [cfg |-> c, draining |-> FALSE, draining_done |-> FALSE,
     buffer_pkt |-> NoPkt, buffer_frame |-> NoFrame, in_pkt |-> NoPkt,
     last_pkt_props |-> NoPkt, compat_decode_frame |-> NoFrame,
     to_free |-> NoFrame, compat_decode |-> FALSE,
     compat_decode_warned |-> FALSE, compat_decode_consumed |-> 0,
     compat_decode_partial_size |-> 0, bsfs |-> <<>>, frame_number |-> 0,
     channels |-> 2, channel_layout |-> 3, sample_rate |-> 44100,
     width |-> IF c.video THEN 16 ELSE 0, height |-> IF c.video THEN 16 ELSE 0,
     codec |-> [held |-> 0], aborted |-> FALSE, hist |-> NoHist(c)]

InitFor(c) ==
    /\ cfg = c
    /\ draining = OpenedSt(c).draining
    /\ draining_done = OpenedSt(c).draining_done
    /\ buffer_pkt = OpenedSt(c).buffer_pkt
    /\ buffer_frame = OpenedSt(c).buffer_frame
    /\ in_pkt = OpenedSt(c).in_pkt
    /\ last_pkt_props = OpenedSt(c).last_pkt_props
    /\ compat_decode_frame = OpenedSt(c).compat_decode_frame
    /\ to_free = OpenedSt(c).to_free
    /\ compat_decode_flag = OpenedSt(c).compat_decode
    /\ compat_decode_warned = OpenedSt(c).compat_decode_warned
    /\ compat_decode_consumed = OpenedSt(c).compat_decode_consumed
    /\ compat_decode_partial_size = OpenedSt(c).compat_decode_partial_size
    /\ bsfs = OpenedSt(c).bsfs
    /\ frame_number = OpenedSt(c).frame_number
    /\ channels = OpenedSt(c).channels
    /\ channel_layout = OpenedSt(c).channel_layout
    /\ sample_rate = OpenedSt(c).sample_rate
    /\ width = OpenedSt(c).width
    /\ height = OpenedSt(c).height
    /\ codec = OpenedSt(c).codec
    /\ aborted = OpenedSt(c).aborted
    /\ hist = OpenedSt(c).hist
    /\ npkts = 0
    /\ call = [op |-> "open", pkt |-> NoPkt]
    /\ call_ret = 0
    /\ call_frame = NoFrame
    /\ call_got_frame = FALSE
    /\ pool = ZeroedPool(c)
    /\ getbuf = NoGetBuf(c)
    /\ neg = NoNeg

Init == \E c \in Configs : InitFor(c)

\* a filter of the chain, or the simple path's input packet, holds a packet
ChainPending(fs, pkt) ==
    \/ ~PktEmpty(pkt)
    \/ \E i \in 1..Len(fs) :
          ~PktEmpty(fs[i].buf) \/ Len(fs[i].held) > 0 \/ Len(fs[i].out) > 0

\* a filter of the chain was handed the end marker
ChainEof(fs) == \E i \in 1..Len(fs) : fs[i].eof

\* the state a call starts from: the per-call part of the history is reset,
\* and pre records what the call found
StartCall ==
    [St EXCEPT !.hist.fed = <<>>, !.hist.delivered = NoFrame,
               !.hist.fetch = NoFetch, !.hist.queued = FALSE,
               !.hist.opp = NoOpp, !.hist.init = NoInit,
               !.hist.consumed = 0, !.hist.done_rets = {},
               !.hist.rets = <<>>, !.hist.dri = FALSE,
               !.hist.submitted = FALSE,
               !.hist.pre = [draining |-> draining,
                             partial |-> compat_decode_partial_size,
                             draining_done |-> draining_done,
                             eof_accepted |-> hist.eof_accepted,
                             eof_returned |-> hist.eof_returned,
                             staged |-> buffer_frame.buf0,
                             pending |-> ChainPending(bsfs, in_pkt),
                             chain_eof |-> ChainEof(bsfs),
                             frame_number |-> frame_number,
                             held |-> codec.held,
                             in_pkt |-> in_pkt,
                             buffer_frame |-> buffer_frame,
                             params |-> Params(St)]]

Send(pkt) ==
    /\ ~aborted
    /\ ~PktEmpty(pkt) => npkts < MaxPkts
    /\ \E o \in avcodec_send_packet(StartCall, pkt) :
         /\ SetSt([o.s EXCEPT
                    !.hist.eof_accepted =
                        @ \/ (pkt = NoPkt /\ o.ret = 0 /\ ~o.s.aborted),
                    \* a retrieve call took a frame that submit had staged
                    !.hist.was_staged = @ \/ o.s.buffer_frame.buf0])
         /\ call_ret' = o.ret
    /\ npkts' = IF ~PktEmpty(pkt) THEN npkts + 1 ELSE npkts
    /\ call' = [op |-> "send", pkt |-> pkt]
    /\ call_frame' = NoFrame
    /\ call_got_frame' = FALSE
    /\ UNCHANGED <<cfg, auxvars>>

Receive ==
    /\ ~aborted
    /\ \E o \in avcodec_receive_frame(StartCall, NoFrame) :
         /\ SetSt([o.s EXCEPT
                    !.hist.eof_returned = @ \/ (o.ret = AVERROR_EOF /\ ~o.s.aborted),
                    \* the retrieve calls since the marker was accepted
                    \* that returned something else than EndOfStream
                    !.hist.tries = IF hist.eof_accepted /\ o.ret # AVERROR_EOF
                                   THEN Min(@ + 1, MaxFrames + MaxErrs + 1)
                                   ELSE @])
         /\ call_ret' = o.ret
         /\ call_frame' = o.frame
    /\ call' = [op |-> "receive", pkt |-> NoPkt]
    /\ call_got_frame' = FALSE
    /\ UNCHANGED <<cfg, npkts, auxvars>>

Flush ==
    /\ ~aborted
    /\ cfg.open
    /\ SetSt([avcodec_flush_buffers(StartCall) EXCEPT
                !.hist.produced = <<>>, !.hist.returned = <<>>,
                !.hist.eof_accepted = FALSE, !.hist.eof_returned = FALSE,
                !.hist.tries = 0, !.hist.was_staged = FALSE,
                !.hist.pure = TRUE, !.hist.pushed = <<>>,
                !.hist.pulled = <<>>])
    /\ call' = [op |-> "flush", pkt |-> NoPkt]
    /\ call_ret' = 0
    /\ call_frame' = NoFrame
    /\ call_got_frame' = FALSE
    /\ UNCHANGED <<cfg, npkts, auxvars>>

CompatDecode(pkt) ==
    /\ ~aborted
    /\ cfg.open
    /\ (~PktEmpty(pkt) /\ compat_decode_partial_size = 0) => npkts < MaxPkts
    /\ \E o \in compat_decode(StartCall, NoFrame, pkt) :
         /\ SetSt([o.s EXCEPT !.hist.pure = FALSE])
         /\ call_ret' = o.ret
         /\ call_frame' = o.frame
         /\ call_got_frame' = o.got_frame
    /\ npkts' = IF ~PktEmpty(pkt) /\ compat_decode_partial_size = 0
                THEN npkts + 1 ELSE npkts
    /\ call' = [op |-> "compat", pkt |-> pkt]
    /\ UNCHANGED <<cfg, auxvars>>

Next ==
    \/ \E pkt \in AppPackets(cfg) : Send(pkt)
    \/ Receive
    \/ Flush
    \/ \E pkt \in AppPackets(cfg) : CompatDecode(pkt)

Spec == Init /\ [][Next]_vars

(***************************************************************************)
(* Video decoders whose frames carry crop margins.                         *)
(***************************************************************************)
Crop(l, r, t, b) ==
    [width |-> 16, height |-> 16, crop_left |-> l, crop_right |-> r,
     crop_top |-> t, crop_bottom |-> b]

\* 2^63
SzHigh == <<0, 0, 0, LIMB \div 2>>

\* no margins; a window inside the frame; the example of the specification
\* (10 + 10 >= 16); sums that equal the size; top + bottom beyond the
\* height; a sum that passes INT_MAX; a sum that passes 2^64
CropGeometries ==
    { NoCrop,
      Crop(SzOf(2), SzOf(1), SzOf(2), SzOf(1)),
      Crop(SzOf(10), SzOf(10), SzZero, SzZero),
      Crop(SzOf(8), SzOf(8), SzZero, SzZero),
      Crop(SzZero, SzZero, SzOf(10), SzOf(6)),
      Crop(SzOf(INT_MAX), SzOf(1), SzZero, SzZero),
      Crop(SzAdd(SzHigh, SzOf(8)), SzHigh, SzZero, SzZero) }

CropConfigs ==
    { [DefaultCfg EXCEPT !.video = TRUE, !.geoms = CropGeometries,
                         !.apply_cropping = a, !.unaligned = u]
      : a \in BOOLEAN, u \in BOOLEAN }
    \cup
    { [DefaultCfg EXCEPT !.video = TRUE, !.geoms = CropGeometries,
                         !.pix_fmt = f, !.dr1 = FALSE]
      : f \in {"VDPAU", "UNKNOWN"} }
    \cup
    { [DefaultCfg EXCEPT !.video = TRUE, !.geoms = CropGeometries,
                         !.shape = "direct", !.apply_cropping = FALSE] }

InitCrop == \E c \in CropConfigs : InitFor(c)

SpecCrop == InitCrop /\ [][Next]_vars

(***************************************************************************)
(* Decoders whose packets carry PARAM_CHANGE side data, with and without   *)
(* AV_CODEC_CAP_PARAM_CHANGE and AV_EF_EXPLODE.                            *)
(***************************************************************************)
ParamConfigs ==
    { [DefaultCfg EXCEPT !.video = TRUE, !.shape = sh, !.param_change = p,
                         !.explode = e, !.side_data = {<<>>, PC12, PC8}]
      : sh \in {"simple", "direct"}, p \in BOOLEAN, e \in BOOLEAN }

InitParam == \E c \in ParamConfigs : InitFor(c)

SpecParam == InitParam /\ [][Next]_vars

(***************************************************************************)
(* Properties.                                                             *)
(***************************************************************************)
\* a retrieve call made after a retrieve call returned EndOfStream, with no
\* flush in between, returns EndOfStream and no frame
EofIsTerminal ==
    (call.op = "receive" /\ hist.pre.eof_returned)
        => (call_ret = AVERROR_EOF /\ call_frame = NoFrame)

\* C1: after submit has accepted an end-of-stream marker, repeated retrieve
\* calls return EndOfStream after at most as many other results as the
\* backend has frames to emit and errors to raise, and every later retrieve
\* call with no flush in between returns EndOfStream and no frame
C1_DrainReachesEof ==
    /\ EofIsTerminal
    /\ hist.tries <= MaxFrames + MaxErrs

\* C1 witness: a retrieve call, made after an earlier one returned
\* EndOfStream following an accepted marker and a returned frame, returned
\* EndOfStream again
C1_Witness ==
    /\ call.op = "receive" /\ hist.pre.eof_returned /\ hist.eof_accepted
    /\ call_ret = AVERROR_EOF /\ Len(hist.returned) > 0 /\ hist.tries > 0

\* the frame avcodec_send_packet staged, if any
Staged == IF buffer_frame.buf0 THEN <<buffer_frame.id>> ELSE <<>>

\* C2: over submit and retrieve calls (since the last flush), the frames
\* retrieve returned followed by the staged frame are the frames the backend
\* produced, in the order it produced them; once retrieve has returned
\* EndOfStream the frames returned are exactly the frames produced
C2_FramesInOrder ==
    hist.pure =>
        /\ hist.produced = hist.returned \o Staged
        /\ hist.eof_returned => hist.returned = hist.produced

\* C2 witness: a marker was accepted and retrieve returned EndOfStream
\* after it returned every frame the backend can emit, one of them staged
\* by submit
C2_Witness ==
    /\ hist.pure /\ hist.eof_accepted /\ hist.eof_returned
    /\ Len(hist.returned) = MaxFrames /\ hist.was_staged

\* C3: whenever retrieve returns success the returned frame has its first
\* buffer set, for the three shapes of backend
C3_ReturnedFrameHasBuffer ==
    (call.op = "receive" /\ call_ret = 0) => call_frame.buf0

\* C4: submit fails when the instance is not open, and on every call made
\* after an earlier submit accepted an end-of-stream marker with no flush
\* since (stated for the backends that emit no frame without buffers)
C4_SubmitFailsAfterEof ==
    (call.op = "send" /\ cfg.bufs = {TRUE}
        /\ (~cfg.open \/ hist.pre.eof_accepted)) => call_ret < 0

\* C5 as claimed: once the packet is queued into the first filter, submit
\* returns success whatever its decode attempt returned
C5_SubmitAlwaysSucceeds ==
    (call.op = "send" /\ hist.queued) => call_ret = 0

\* the errors decode_receive_frame_internal reports other than EAGAIN and
\* the end of the stream
IsDecodeError(ret) == ret < 0 /\ ret # AVERROR_EAGAIN /\ ret # AVERROR_EOF

\* C5 as amended: once the packet is queued into the first filter, submit
\* returns success when its decode attempt is skipped or yields a frame,
\* EAGAIN or EndOfStream, and returns the error itself when the attempt
\* raises any other error
C5_SubmitReturnsDecodeError ==
    (call.op = "send" /\ hist.queued) =>
        call_ret = IF hist.opp.ran /\ IsDecodeError(hist.opp.ret)
                   THEN hist.opp.ret ELSE 0

\* C5 witness: submit queued the packet and returned the backend's error
C5_Witness ==
    /\ call.op = "send" /\ hist.queued /\ call.pkt.size > 0
    /\ hist.opp.ran /\ call_ret = AVERROR_EIO

\* a + b >= w for size_t a and b and an int w > 0, the sum not wrapping
SumReaches(a, b, w) ==
    SzCarry(a, b, 0, 5) > 0 \/ SzGeq(SzAdd(a, b), SzOf(w))

\* the frame the backend delivered to this retrieve call has margins whose
\* sums reach its width or its height
DeliveredInvalid ==
    /\ call.op = "receive" /\ hist.delivered # NoFrame
    /\ \/ SumReaches(hist.delivered.crop_left, hist.delivered.crop_right,
                     hist.delivered.width)
       \/ SumReaches(hist.delivered.crop_top, hist.delivered.crop_bottom,
                     hist.delivered.height)

\* C8: a frame whose margins satisfy crop_left + crop_right >= width or
\* crop_top + crop_bottom >= height is returned by a successful retrieve
\* call with its four margins zero and its width, height and plane
\* pointers unchanged, whether or not cropping is enabled
C8_InvalidCropIsZeroed ==
    DeliveredInvalid =>
        /\ call_ret = 0
        /\ call_frame = ZeroCrop(hist.delivered)

\* what submit(pkt) followed by retrieve can return from the context s
SubmitRetrieve(s, pkt) ==
    UNION { { <<a.ret, b.ret, b.frame>> :
                b \in avcodec_receive_frame(a.s, NoFrame) } :
            a \in avcodec_send_packet(s, pkt) }

\* a freshly opened instance of this decoder with the parameters this one
\* has now
Reopened ==
    [OpenedSt(cfg) EXCEPT !.channels = channels,
                          !.channel_layout = channel_layout,
                          !.sample_rate = sample_rate,
                          !.width = width, !.height = height]

\* the fields avcodec_flush_buffers resets are reset
FlushedFields ==
    /\ ~draining /\ ~draining_done
    /\ buffer_pkt = NoPkt /\ in_pkt = NoPkt
    /\ buffer_frame = NoFrame /\ compat_decode_frame = NoFrame
    /\ bsfs = <<>>

\* C6 as claimed: after flush, draining and draining_done are false, the
\* staged packet, the input packet, the staged frame and the legacy staging
\* frame are empty and the filter chain is empty, and submit followed by
\* retrieve returns what it returns on a freshly opened instance (for the
\* marker and for every packet)
C6_FlushResets ==
    call.op = "flush" =>
        /\ FlushedFields
        /\ \A pkt \in AppPackets(cfg) :
              SubmitRetrieve([St EXCEPT !.hist = NoHist(cfg)], pkt)
                  = SubmitRetrieve(Reopened, pkt)

\* C6 as amended: after flush the same fields are reset, and submit followed
\* by retrieve returns what it returns on a freshly opened instance whose
\* backend holds the frames this backend still holds (a backend that is not
\* frame-threaded and declares no flush keeps them)
C6_FlushResetsDriver ==
    call.op = "flush" =>
        /\ FlushedFields
        /\ \A pkt \in AppPackets(cfg) :
              SubmitRetrieve([St EXCEPT !.hist = NoHist(cfg)], pkt)
                  = SubmitRetrieve([Reopened EXCEPT !.codec = codec], pkt)

\* C6 witness: flush was called on a drained instance that had returned a
\* frame, of a codec that names its filter
C6_Witness ==
    /\ call.op = "flush" /\ hist.pre.draining /\ hist.pre.draining_done
    /\ cfg.has_bsfs /\ frame_number > 0

\* C7: across a submit, a retrieve or a legacy decode call draining stays
\* true once it is true and so does draining_done; flush clears both
C7_DrainingIsMonotone ==
    /\ call.op \in {"send", "receive", "compat"} =>
          /\ hist.pre.draining => draining
          /\ hist.pre.draining_done => draining_done
    /\ call.op = "flush" => ~draining /\ ~draining_done

\* C7 witness: submit was called on a drained instance, which stayed
\* drained
C7_Witness ==
    /\ call.op = "send" /\ call.pkt.size > 0
    /\ hist.pre.draining /\ hist.pre.draining_done
    /\ draining /\ draining_done

\* the width and the height among the decoder parameters
Dims(params) == <<params[4], params[5]>>

\* C9 as claimed: with a backend that supports parameter changes, the
\* payload cut to 8 bytes makes the packet fetch fail with InvalidData
C9_TruncatedIsRejected ==
    (cfg.param_change /\ hist.fetch.sd = PC8)
        => hist.fetch.ret = AVERROR_INVALIDDATA

\* C9 as amended: with a backend that supports parameter changes, the
\* 12-byte payload sets width and height to the encoded values and the
\* fetch succeeds; the payload cut to 8 bytes changes no parameter, and the
\* fetch fails with InvalidData if AV_EF_EXPLODE is set and succeeds
\* otherwise
C9_DimensionsPayload ==
    cfg.param_change =>
        /\ hist.fetch.sd = PC12 =>
              /\ hist.fetch.ret = 0
              /\ Dims(hist.fetch.after) = <<LE(SubSeq(PC12, 5, 8), 4),
                                            LE(SubSeq(PC12, 9, 12), 4)>>
        /\ hist.fetch.sd = PC8 =>
              /\ hist.fetch.after = hist.fetch.before
              /\ hist.fetch.ret = IF cfg.explode THEN AVERROR_INVALIDDATA ELSE 0
              /\ cfg.explode => call_ret = AVERROR_INVALIDDATA

\* C9 witness: after the 12-byte payload changed the size, the payload cut
\* to 8 bytes made a fetch fail with InvalidData
C9_Witness ==
    /\ cfg.param_change /\ cfg.explode
    /\ hist.fetch.sd = PC8 /\ hist.fetch.ret = AVERROR_INVALIDDATA
    /\ width = 32 /\ height = 24 /\ call_ret = AVERROR_INVALIDDATA

\* C10: a packet with parameter-change side data reaching a backend
\* without AV_CODEC_CAP_PARAM_CHANGE changes no decoder parameter; with
\* AV_EF_EXPLODE the fetch fails and the backend is not handed the packet,
\* without it the fetch succeeds and the backend is handed the packet
C10_UnsupportedParamChange ==
    (~cfg.param_change /\ hist.fetch.sd # <<>>) =>
        /\ hist.fetch.after = hist.fetch.before
        /\ Params(St) = hist.pre.params
        /\ IF cfg.explode
           THEN /\ hist.fetch.ret = AVERROR_EINVAL
                /\ call_ret = AVERROR_EINVAL
                /\ \A i \in 1..Len(hist.fed) : hist.fed[i].sd = <<>>
           ELSE /\ hist.fetch.ret = 0
                /\ \E i \in 1..Len(hist.fed) : hist.fed[i].sd = hist.fetch.sd

\* C10 witness: without AV_EF_EXPLODE the backend was handed a packet with
\* the 12-byte payload and the size is what it was
C10_Witness ==
    /\ ~cfg.param_change /\ ~cfg.explode /\ hist.fetch.sd = PC12
    /\ \E i \in 1..Len(hist.fed) : hist.fed[i].sd = PC12
    /\ width = 16 /\ call_ret = 0

(***************************************************************************)
(* The default get_buffer2 callback on its own: a decoder, audio or video, *)
(* asks avcodec_default_get_buffer2 for one frame after the other.         *)
(***************************************************************************)
\* avcodec_default_get_buffer2 calls over a run
MaxGetBuffers == 3

Pic(fmt, w, h) == [NoPic EXCEPT !.format = fmt, !.width = w, !.height = h]

Snd(fmt, ch, n) ==
    [NoPic EXCEPT !.format = fmt, !.nb_channels = ch, !.nb_samples = n]

\* the frames a decoder asks a buffer for: pictures of two formats and
\* several sizes, one of them too large for an int and one that holds data
\* already; blocks of samples, interleaved and planar, one without samples
PoolFrames(c) ==
    IF c.video
    THEN { Pic("YUV420P", 4, 4), Pic("YUV420P", 4, 8), Pic("YUV420P", 6, 4),
           Pic("RGB24", 4, 4), Pic("YUV420P", 65536, 65536),
           [Pic("YUV420P", 4, 4) EXCEPT !.data0 = TRUE] }
    ELSE { Snd("S16", 2, 4), Snd("S16", 2, 8), Snd("S16", 1, 4),
           Snd("S16P", c.nb_channels, 4), Snd("S16", 2, 0) }

PoolConfigs ==
    { [DefaultCfg EXCEPT !.video = TRUE],
      [DefaultCfg EXCEPT !.video = TRUE, !.pix_fmt = "RGB24"],
      DefaultCfg,
      [DefaultCfg EXCEPT !.nb_channels = 9],
      [DefaultCfg EXCEPT !.video = TRUE, !.hw_frames_ctx = TRUE] }

GetBuffer(f) ==
    /\ getbuf.calls < MaxGetBuffers
    /\ \E o \in avcodec_default_get_buffer2(cfg, pool, f) :
         /\ pool' = o.pool
         /\ getbuf' = [calls |-> getbuf.calls + 1, req |-> f, before |-> pool,
                       upd |-> o.upd, ret |-> o.ret, frame |-> o.frame]
    /\ UNCHANGED <<cfg, ctxvars, callvars, neg>>

InitPool == \E c \in PoolConfigs : InitFor(c)

NextPool == \E f \in PoolFrames(cfg) : GetBuffer(f)

SpecPool == InitPool /\ [][NextPool]_vars

\* what update_frame_pool compares: of the descriptor, and of a request
PoolKey(c, p) ==
    IF c.video THEN <<p.format, p.width, p.height>>
    ELSE <<p.format, p.planes, p.channels, p.samples>>

FrameKey(c, f) ==
    IF c.video THEN <<f.format, f.width, f.height>>
    ELSE <<f.format,
           IF av_sample_fmt_is_planar(f.format) THEN c.nb_channels ELSE 1,
           f.nb_channels, f.nb_samples>>

\* the last call went through update_frame_pool
PoolCall == getbuf.calls > 0 /\ ~cfg.hw_frames_ctx

\* C11: a request whose key (video: format, width, height; audio: format,
\* plane count, channel count, sample count) is the descriptor's leaves the
\* pools and the descriptor untouched; a request with another key, when the
\* rebuild succeeds, leaves no pool of before in place, every pool being a
\* new one, and the descriptor's key is the request's.
C11_PoolReusedOrRebuilt ==
    PoolCall =>
        IF PoolKey(cfg, getbuf.before) = FrameKey(cfg, getbuf.req)
        THEN pool = getbuf.before /\ getbuf.upd = 0
        ELSE getbuf.upd = 0 =>
                /\ PoolKey(cfg, pool) = FrameKey(cfg, getbuf.req)
                /\ pool.pools[1] # 0
                /\ \A i \in 1..4 :
                     pool.pools[i] # 0 => pool.pools[i] > getbuf.before.made

\* C11 happens: a video pool that was rebuilt for another size serves a
\* request of its key from the pools it has
C11_Witness ==
    /\ PoolCall /\ cfg.video /\ getbuf.ret = 0
    /\ PoolKey(cfg, getbuf.before) = FrameKey(cfg, getbuf.req)
    /\ pool.made >= 6
    /\ getbuf.frame.buf[1] = pool.pools[1]

\* the descriptor in its empty state
PoolIsEmpty(p) ==
    /\ p.format = "NONE"
    /\ p.width = 0 /\ p.height = 0
    /\ p.planes = 0 /\ p.channels = 0 /\ p.samples = 0
    /\ p.pools = <<0, 0, 0, 0>>

\* C12: whenever avcodec_default_get_buffer2, without a hardware frame
\* pool, fails, it reports OutOfMemory and the frame holds no buffer, and
\* after a failed rebuild the descriptor is in its empty state.
C12_FailureIsOutOfMemory ==
    (PoolCall /\ getbuf.ret < 0) =>
        /\ getbuf.ret = AVERROR_ENOMEM
        /\ getbuf.frame.buf = NoBufs
        /\ getbuf.frame.extended_buf = <<>>
        /\ getbuf.upd < 0 => PoolIsEmpty(pool)

(***************************************************************************)
(* The filter chain: codecs that name no filter, one filter, pass-through  *)
(* or buffering, two filters, a filter that does not exist and no filter   *)
(* at all (an empty string), with and without allocations that fail.       *)
(***************************************************************************)
BsfsConfigs ==
    { TwoBsfs(DefaultCfg),
      TwoBsfs([DefaultCfg EXCEPT !.bsf_fails = TRUE]),
      [DefaultCfg EXCEPT !.bsf_fails = TRUE],
      OneBsf([DefaultCfg EXCEPT !.shape = "direct", !.bsf_fails = TRUE]),
      [DefaultCfg EXCEPT !.has_bsfs = TRUE, !.bsfs = <<"pair">>],
      [DefaultCfg EXCEPT !.has_bsfs = TRUE, !.bsfs = <<"pair">>,
                         !.shape = "direct"],
      [DefaultCfg EXCEPT !.has_bsfs = TRUE, !.bsfs = <<"null", ",", "pair">>],
      [DefaultCfg EXCEPT !.has_bsfs = TRUE, !.bsfs = <<"nosuch">>],
      [DefaultCfg EXCEPT !.has_bsfs = TRUE, !.bsfs = <<>>] }

InitBsfs == \E c \in BsfsConfigs : InitFor(c)

SpecBsfs == InitBsfs /\ [][Next]_vars

\* the filters a specification names
BsfsCount(c) == Cardinality({i \in 1..Len(BsfsStr(c)) : BsfsStr(c)[i] # ","})

\* C13: at every return from bsfs_init the chain is empty or holds every
\* filter the specification names; when the construction of a filter fails,
\* at whichever step, the chain is empty (the filters built before are
\* released, the count is zero) and the call that ran bsfs_init returns
\* the error.
C13_ChainEmptyOrBuilt ==
    /\ Len(bsfs) = 0 \/ Len(bsfs) = BsfsCount(cfg)
    /\ hist.init.ret < 0 =>
          /\ bsfs = <<>>
          /\ call.op \in {"send", "receive"} => call_ret = hist.init.ret

\* C13 happens: the first filter was built and the second one failed
C13_Witness ==
    /\ call.op = "send"
    /\ hist.init.ran /\ hist.init.ret < 0 /\ hist.init.k = 2
    /\ bsfs = <<>> /\ call_ret = hist.init.ret

\* C14: after bsfs_init returned success the chain holds at least one
\* filter, whatever the specification, an absent one and an empty string
\* included.
C14_ChainHasAFilter ==
    (hist.init.ran /\ hist.init.ret = 0) => Len(bsfs) >= 1

MaxNegotiations == 2

FmtLists ==
    { <<"YUV420P">>, <<"VAAPI", "YUV420P">>, <<"VAAPI", "VDPAU", "YUV420P">>,
      <<"VDPAU", "RGB24", "YUV420P">>, <<>> }

FmtConfigs ==
    { [DefaultCfg EXCEPT !.video = TRUE, !.get_format = "member"],
      [DefaultCfg EXCEPT !.video = TRUE, !.get_format = "member",
                         !.hwaccels = {"VAAPI"}],
      [DefaultCfg EXCEPT !.video = TRUE, !.get_format = "member",
                         !.hwaccels = {"VAAPI", "VDPAU"}],
      [DefaultCfg EXCEPT !.video = TRUE, !.hwaccels = {"VAAPI"}],
      [DefaultCfg EXCEPT !.video = TRUE, !.get_format = "any",
                         !.hwaccels = {"VAAPI"}] }

GetFormat(fmt) ==
    /\ neg.calls < MaxNegotiations
    /\ ~neg.aborted
    /\ \E o \in ff_get_format(cfg, fmt, neg) :
         neg' = [o EXCEPT !.calls = neg.calls + 1]
    /\ UNCHANGED <<cfg, ctxvars, callvars, pool, getbuf>>

InitFmt == \E c \in FmtConfigs : InitFor(c)

NextFmt == \E fmt \in FmtLists : GetFormat(fmt)

SpecFmt == InitFmt /\ [][NextFmt]_vars

\* the list b is the list a without its element k
Without(a, b, k) ==
    /\ Len(b) = Len(a) - 1
    /\ \A j \in 1..Len(b) : b[j] = IF j < k THEN a[j] ELSE a[j + 1]

\* C16: with a callback that returns a member of the list it is given, a
\* negotiation over n candidates whose last is a software format calls the
\* callback at most n times; the list of each call after the first is the
\* list before it without the candidate chosen then, a hardware format
\* whose binding failed, the others in their order, and its last entry is
\* the software format the candidates end with.
C16_NegotiationTerminates ==
    (neg.calls > 0 /\ cfg.get_format \in {"default", "member"}
        /\ Len(neg.fmt) > 0) =>
        /\ ~neg.aborted
        /\ Len(neg.lists) <= Len(neg.fmt)
        /\ \A i \in 1..Len(neg.lists) :
              /\ neg.picks[i] \in {neg.lists[i][j] : j \in 1..Len(neg.lists[i])}
              /\ neg.lists[i][Len(neg.lists[i])] = neg.fmt[Len(neg.fmt)]
              /\ i = 1 => neg.lists[i] = neg.fmt
              /\ i > 1 =>
                    /\ is_hwaccel_pix_fmt(neg.picks[i - 1])
                    /\ \E k \in 1..Len(neg.lists[i - 1]) :
                          /\ neg.lists[i - 1][k] = neg.picks[i - 1]
                          /\ Without(neg.lists[i - 1], neg.lists[i], k)

\* C16 happens: of three candidates the two hardware formats failed to
\* bind, one after the other, and the third call chose the software format
C16_Witness ==
    /\ neg.calls > 0 /\ cfg.get_format = "member"
    /\ Len(neg.fmt) = 3 /\ Len(neg.lists) = 3
    /\ neg.lists[3] = <<neg.fmt[3]>> /\ neg.ret = neg.fmt[3]

\* what a submit or a retrieve could change
drivervars == <<draining, draining_done, buffer_pkt, buffer_frame, in_pkt,
                last_pkt_props, compat_decode_frame, to_free,
                compat_decode_warned, bsfs, frame_number, channels,
                channel_layout, sample_rate, width, height, codec>>

\* C17: a legacy decode call that finds a remembered remainder other than 0
\* and is handed a packet of another size returns InvalidArgument, reports
\* no frame, and has neither submitted the packet nor retrieved a frame:
\* nothing a submit or a retrieve touches has changed.
C17_MismatchIsRejected ==
    [][(call'.op = "compat" /\ compat_decode_partial_size > 0
          /\ call'.pkt.size # compat_decode_partial_size) =>
          /\ call_ret' = AVERROR_EINVAL
          /\ ~call_got_frame'
          /\ ~aborted'
          /\ UNCHANGED drivervars]_vars

\* C18: a legacy decode call that returns without an error returns the
\* size of its packet when the codec declares bitstream filters, and else
\* the smaller of the bytes the backend consumed during the call and the
\* size of the packet; the result lies between 0 and that size, and the
\* remainder remembered is the size minus the result; after a call that
\* returns an error the remainder is 0.
C18_ConsumedCount ==
    (call.op = "compat" /\ ~aborted) =>
        IF call_ret >= 0
        THEN /\ call_ret = IF cfg.has_bsfs THEN call.pkt.size
                           ELSE Min(hist.consumed, call.pkt.size)
             /\ call_ret \in 0..call.pkt.size
             /\ compat_decode_partial_size = call.pkt.size - call_ret
        ELSE compat_decode_partial_size = 0

\* C18 happens: the backend consumed one byte of a packet of two, and the
\* legacy call returned 1 and remembers a remainder of 1
C18_Witness ==
    /\ call.op = "compat" /\ ~aborted /\ ~cfg.has_bsfs
    /\ call.pkt.size = 2 /\ hist.consumed = 1
    /\ call_ret = 1 /\ compat_decode_partial_size = 1

\* C19: frame_number never decreases; a retrieve that returns success adds
\* exactly one to it, a retrieve that returns WouldBlock, EndOfStream or an
\* error leaves it as it is, and so do a submit, whether or not its decode
\* attempt stages a frame, and a flush.
C19_FrameNumberCounts ==
    [][/\ frame_number' >= frame_number
       /\ (call'.op = "receive" /\ ~aborted') =>
              frame_number' = IF call_ret' = 0 THEN frame_number + 1
                              ELSE frame_number
       /\ call'.op \in {"send", "flush"} => frame_number' = frame_number]_vars

\* C19 happens: a submit staged a frame and the counter stayed at 1, the
\* count of the frame a retrieve had returned
C19_Witness ==
    /\ call.op = "send" /\ buffer_frame.buf0 /\ ~hist.pre.staged
    /\ frame_number = 1 /\ Len(hist.returned) = 1

(***************************************************************************)
(* Decoders whose application also submits packets that carry side data    *)
(* and no data, over the shapes of backend, with and without delayed       *)
(* output.                                                                 *)
(***************************************************************************)
SdConfigs ==
    { [DefaultCfg EXCEPT !.video = TRUE, !.param_change = TRUE,
                         !.shape = sh, !.delay = d, !.sd_only = {PC12}]
      : sh \in {"simple", "direct"}, d \in BOOLEAN }

InitSd == \E c \in SdConfigs : InitFor(c)

SpecSd == InitSd /\ [][Next]_vars

\* C20: in every reachable state draining_done implies draining, whatever
\* the packets (those with side data and no data included) and the backend
\* (those without delayed output included)
C20_DrainingDoneImpliesDraining == draining_done => draining

\* C21: with a backend of the simple or the threaded shape, a call that
\* finds draining_done set does not hand the backend a packet, and every
\* decode_simple_internal call entered with draining_done set returns
\* EndOfStream
C21_NoDecodeAfterDrained ==
    cfg.shape # "direct"
        => /\ hist.pre.draining_done => hist.fed = <<>>
           /\ hist.done_rets \subseteq {AVERROR_EOF}

\* a retrieve call on an open decoder of the simple shape without delayed
\* output that found no staged frame and no packet in the chain or in the
\* input packet
NoPacketCall ==
    /\ call.op = "receive" /\ cfg.open /\ cfg.shape = "simple" /\ ~cfg.delay
    /\ ~hist.pre.staged /\ ~hist.pre.pending

\* C22 as stated: such a call returns EndOfStream and hands the backend
\* no packet
C22_NoPacketIsEof ==
    NoPacketCall => (call_ret = AVERROR_EOF /\ hist.fed = <<>>)

\* C22: such a call hands the backend no packet; it returns EndOfStream
\* when draining had started or the chain had been handed the end marker,
\* and WouldBlock when not
C22_NoPacketIsEofOrAgain ==
    NoPacketCall
        => /\ hist.fed = <<>>
           /\ call_ret = IF hist.pre.draining \/ hist.pre.chain_eof
                         THEN AVERROR_EOF ELSE AVERROR_EAGAIN

\* C22 witness: both cases; here the chain had been handed the end marker
\* and the retrieve call returned EndOfStream without a decode call
C22_Witness ==
    /\ NoPacketCall /\ hist.pre.chain_eof /\ ~hist.pre.draining
    /\ call_ret = AVERROR_EOF /\ hist.fed = <<>>

\* a retrieve call on an open decoder that found no staged frame, no packet
\* in the chain or in the input packet, and draining not set
IdleCall ==
    /\ call.op = "receive" /\ cfg.open
    /\ ~hist.pre.staged /\ ~hist.pre.pending /\ ~hist.pre.draining

\* every submit made now queues its packet
SubmitAccepted ==
    \A p \in AppPackets(cfg) :
        \A o \in avcodec_send_packet(StartCall, p) : o.s.hist.queued

\* the call returned WouldBlock and no frame, left draining, draining_done
\* and frame_number as they were, and a submit is accepted
WouldBlockOnly ==
    /\ call_ret = AVERROR_EAGAIN /\ call_frame = NoFrame
    /\ draining = hist.pre.draining
    /\ draining_done = hist.pre.draining_done
    /\ frame_number = hist.pre.frame_number
    /\ SubmitAccepted

\* C23 as stated: every such retrieve call returns WouldBlock and no frame
\* and changes nothing
C23_IdleRetrieveWouldBlock == IdleCall => WouldBlockOnly

\* C23: such a retrieve call returns WouldBlock and no frame, changes
\* neither draining, draining_done nor frame_number, and a submit is
\* accepted after it, when the chain had not been handed the end marker and
\* a backend of the receive_frame shape held no frame
C23_IdleRetrieveWouldBlockNoMarker ==
    ( /\ IdleCall /\ ~hist.pre.chain_eof
      /\ cfg.shape = "direct" => hist.pre.held = 0 )
        => WouldBlockOnly

\* C23 witness: such a call after packets were decoded and their frames
\* returned
C23_Witness ==
    /\ IdleCall /\ ~hist.pre.chain_eof /\ call_ret = AVERROR_EAGAIN
    /\ Len(hist.returned) > 0 /\ frame_number > 0

\* what is left of packet p after the backend consumed k bytes of it
Remainder(p, k) == [size |-> p.size - k, sd |-> p.sd, ts |-> FALSE]

\* the packet the simple path holds after the i-th decode of the call: the
\* one it decodes next or, after the last decode, the input packet
HeldAfter(i) == IF i < Len(hist.fed) THEN hist.fed[i + 1] ELSE in_pkt

\* C24: on the simple path, after a decode of an audio packet of which the
\* backend consumed k bytes, 0 <= k < size, the packet decoded next (the
\* input packet, if none) is the remainder of size - k bytes without
\* timestamps, and the last packet properties have no timestamps when the
\* call ends there; a remainder a call finds is what it decodes first;
\* a video packet never leaves a remainder
C24_PartialPacketKept ==
    (cfg.shape # "direct")
        => /\ Len(hist.rets) = Len(hist.fed)
           /\ \A i \in 1..Len(hist.fed) :
                 (~cfg.video /\ hist.rets[i] >= 0
                             /\ hist.rets[i] < hist.fed[i].size)
                    => /\ HeldAfter(i) = Remainder(hist.fed[i], hist.rets[i])
                       /\ i = Len(hist.fed) => ~last_pkt_props.ts
           /\ (hist.pre.in_pkt.size > 0 /\ call.op # "flush")
                 => IF Len(hist.fed) > 0 THEN hist.fed[1] = hist.pre.in_pkt
                    ELSE in_pkt = hist.pre.in_pkt
           /\ cfg.video
                 => /\ in_pkt.size > 0 => in_pkt.ts
                    /\ \A i \in 1..Len(hist.fed) :
                          hist.fed[i].size > 0 => hist.fed[i].ts

\* C24 witness: a call decoded the remainder of an audio packet that an
\* earlier call had left, and left a remainder again
C24_Witness ==
    /\ cfg.shape = "simple" /\ ~cfg.video
    /\ hist.pre.in_pkt.size > 0 /\ ~hist.pre.in_pkt.ts
    /\ Len(hist.fed) > 0 /\ in_pkt.size > 0
    /\ in_pkt.size < hist.pre.in_pkt.size

\* the assertion at the head of decode_receive_frame_internal never failed,
\* and a submit that found a frame staged made no decode call and left the
\* frame staged
StagedFrameKept ==
    /\ ~hist.overwritten
    /\ (call.op = "send" /\ hist.pre.staged)
          => (~hist.dri /\ buffer_frame = hist.pre.buffer_frame)

\* a retrieve call that found a frame staged
StagedCall == call.op = "receive" /\ hist.pre.staged

\* the retrieve call returned the frame that was staged
ReturnedStaged ==
    /\ call_ret = 0 /\ call_frame.buf0
    /\ call_frame.id = hist.pre.buffer_frame.id

\* C25 as stated: the staged frame is never overwritten, and a retrieve
\* call that finds a frame staged returns it without a decode call and
\* leaves nothing staged
C25_StagedFrameReturned ==
    /\ StagedFrameKept
    /\ StagedCall => (~hist.dri /\ buffer_frame = NoFrame /\ ReturnedStaged)

\* C25: the staged frame is never overwritten, and a retrieve call that
\* finds a frame staged makes no decode call, leaves nothing staged, and
\* returns that frame, or the error of apply_cropping and no frame
C25_StagedFrameReturnedOrCropError ==
    /\ StagedFrameKept
    /\ StagedCall
          => /\ ~hist.dri /\ buffer_frame = NoFrame
             /\ \/ ReturnedStaged
                \/ /\ call_ret = AVERROR_BUG /\ call_frame = NoFrame
                   /\ cfg.video
                   /\ apply_cropping(cfg, hist.pre.buffer_frame).ret
                          = AVERROR_BUG

\* C25 witness: a frame was staged, a submit left it alone, and the
\* retrieve call after it returned it
C25_Witness ==
    /\ StagedCall /\ ReturnedStaged /\ ~hist.dri /\ buffer_frame = NoFrame
    /\ hist.pushed # <<>> /\ Len(hist.pushed) > Len(hist.pulled)

\* a retrieve call returned a frame of a conventional pixel format that the
\* backend delivered with valid margins, with cropping enabled and
\* AV_CODEC_FLAG_UNALIGNED not set
AlignedCropCall ==
    /\ call.op = "receive" /\ call_ret = 0 /\ hist.delivered # NoFrame
    /\ cfg.video /\ cfg.apply_cropping /\ ~cfg.unaligned
    /\ (av_pix_fmt_desc_get(hist.delivered.format).flags
           \cap {"BITSTREAM", "HWACCEL", "NODESC"}) = {}
    /\ ~InvalidCropping(hist.delivered)

\* the plane offsets of the delivered frame with the left margin l
OffsetsWithLeft(l) ==
    calc_cropping_offsets([hist.delivered EXCEPT !.crop_left = SzOf(l)],
                          av_pix_fmt_desc_get(hist.delivered.format))

\* the left margins, not above the delivered one, that give every plane an
\* offset of 0 or a multiple of 32 bytes
AlignedLefts ==
    { l \in 0..SzToInt(hist.delivered.crop_left) :
        \A i \in Planes(hist.delivered) : OffsetsWithLeft(l)[i][1] % 32 = 0 }

\* C26: such a frame is returned with every plane pointer advanced by an
\* offset that is 0 or a multiple of 32 bytes, the offset of the largest
\* left margin not above the delivered one that gives such offsets
C26_CropKeepsAlignment ==
    AlignedCropCall
        => /\ AlignedLefts # {}
           /\ \A i \in Planes(hist.delivered) :
                 /\ SzSub(call_frame.data[i], hist.delivered.data[i])[1] % 32 = 0
                 /\ \E l \in AlignedLefts :
                       /\ \A m \in AlignedLefts : m <= l
                       /\ call_frame.data[i]
                            = SzAdd(hist.delivered.data[i], OffsetsWithLeft(l)[i])

\* the binding agrees with the format the negotiation returned: the
\* accelerator of a hardware format, with its private data, and none for
\* a software format or no format
BindingAgrees ==
    IF is_hwaccel_pix_fmt(neg.ret)
    THEN neg.hwaccel = neg.ret /\ neg.ret \in cfg.hwaccels /\ neg.priv
    ELSE neg.hwaccel = "NONE" /\ ~neg.priv

\* whenever the callback was asked no accelerator was bound, and the one
\* the negotiation found bound was uninitialized first
UnboundWhenAsked ==
    /\ \A i \in 1..Len(neg.bound) : neg.bound[i] = "NONE"
    /\ (neg.found # "NONE" /\ Len(neg.lists) > 0)
          => (neg.uninits # <<>> /\ neg.uninits[1] = neg.found)

\* C27: at every return from ff_get_format the binding agrees with the
\* format returned (the accelerator registered for a hardware format, its
\* init having succeeded; no accelerator and no private data for a
\* software format or no format), and a binding left by an earlier
\* negotiation was uninitialized and released before the callback was
\* asked
C27_BindingConsistent ==
    (neg.calls > 0 /\ ~neg.aborted) => (BindingAgrees /\ UnboundWhenAsked)

\* C28: every legacy decode call finds compat_decode_consumed at 0, so
\* that the assertion at its entry holds, whatever submit, retrieve, flush
\* and legacy decode calls came before
C28_EntryAssertionHolds ==
    [][call'.op = "compat" => compat_decode_consumed = 0]_vars

\* C29: flush resets the remembered remainder of the legacy call: a legacy
\* decode call that comes right after a flush which found a remainder other
\* than 0 is not rejected for the size of its packet, whatever that size,
\* and hands its packet to submit
C29_FlushResetsRemainder ==
    [][(call.op = "flush" /\ hist.pre.partial > 0 /\ call'.op = "compat"
          /\ ~aborted') =>
          hist'.submitted]_vars

(***************************************************************************)
(* Decoders with AV_CODEC_CAP_PARAM_CHANGE whose packets carry a           *)
(* PARAM_CHANGE payload cut short: for every combination of the four flag  *)
(* bits, the flags word followed by the fields it announces, cut after     *)
(* every byte but the last.                                                *)
(***************************************************************************)
\* the bytes of a payload announcing the fields of flags: 1 channel, layout
\* 4, 8000 Hz, 32x24
FullPayload(flags) ==
    <<flags, 0, 0, 0>>
    \o (IF HasBit(flags, AV_SIDE_DATA_PARAM_CHANGE_CHANNEL_COUNT)
        THEN <<1, 0, 0, 0>> ELSE <<>>)
    \o (IF HasBit(flags, AV_SIDE_DATA_PARAM_CHANGE_CHANNEL_LAYOUT)
        THEN <<4, 0, 0, 0, 0, 0, 0, 0>> ELSE <<>>)
    \o (IF HasBit(flags, AV_SIDE_DATA_PARAM_CHANGE_SAMPLE_RATE)
        THEN <<64, 31, 0, 0>> ELSE <<>>)
    \o (IF HasBit(flags, AV_SIDE_DATA_PARAM_CHANGE_DIMENSIONS)
        THEN SubSeq(PC12, 5, 12) ELSE <<>>)

\* the payloads cut short
TruncatedPayloads ==
    UNION { { SubSeq(FullPayload(f), 1, n) : n \in 1..(Len(FullPayload(f)) - 1) }
            : f \in 0..15 }

TruncConfigs ==
    { [DefaultCfg EXCEPT !.video = TRUE, !.param_change = TRUE,
                         !.explode = e, !.side_data = {sd}]
      : e \in BOOLEAN, sd \in TruncatedPayloads }

InitTrunc == \E c \in TruncConfigs : InitFor(c)

\* the calls of the new API, which fetch the packets
NextTrunc ==
    \/ \E pkt \in AppPackets(cfg) : Send(pkt)
    \/ Receive

SpecTrunc == InitTrunc /\ [][NextTrunc]_vars

\* the payload is too small for the flags word or for the fields the flags
\* word announces
TooSmall(sd) == Len(sd) < 4 \/ Len(sd) < Len(FullPayload(LE(sd, 4)))

\* C30: when the PARAM_CHANGE payload of a fetched packet is too small for
\* the fields its flags announce, every decoder parameter (channels,
\* channel_layout, sample_rate, width, height) is after the fetch what it
\* was before, for every combination of flag bits and every cut
C30_TruncatedChangesNothing ==
    (cfg.param_change /\ hist.fetch.sd # <<>> /\ TooSmall(hist.fetch.sd)) =>
        hist.fetch.after = hist.fetch.before

====
